---- MODULE Spec2Model ----
(***************************************************************************)
(* A model of the pseudo compiler: lexer, parser, semantic analyzer, IR    *)
(* generator and the driver that chains them.                              *)
(*                                                                         *)
(* Four specifications share the module:                                   *)
(*   Spec      the driver's pipeline on an AST (semantic analysis, IR      *)
(*             generation, code generation), one step per phase or per     *)
(*             top-level statement;                                        *)
(*   SpecParse the parser applied to a token sequence;                     *)
(*   SpecLex   the lexer, one step per loop iteration, on a source text;   *)
(*   SpecExpr  analyze_expr applied to one expression.                     *)
(*                                                                         *)
(* A Rust panic (todo!(), unreachable!(), an index out of bounds) and a    *)
(* process::exit are outcomes of the operators that model the code.        *)
(***************************************************************************)
EXTENDS Integers, Sequences, FiniteSets, TLC

VARIABLES
    pc,         \* the driver's position (Spec); the phase of the other specifications
    ast,        \* Vec<AstNode<Stmts>>: the program, annotated in place by the analyzer
    sem,        \* the SemanticAnalyzer object
    idx,        \* index of the next top-level node in the running for loop of analyze_ast
    bidx,       \* index of the next statement of the top-level subprogram body being analyzed
    reported,   \* the errors printed by analyze_ast before it exits
    ir,         \* Vec<Cir> returned by generate_cir
    code,       \* the generated C text, a sequence of pieces of text
    tokens,     \* the token sequence the parser reads (SpecParse)
    parsed,     \* the outcome of parse_program (SpecParse)
    lex,        \* the Lexer object and the position inside next() (SpecLex)
    probe,      \* one call of analyze_expr: its inputs and its result (SpecExpr)
    cc,         \* the outcome of the native C compiler the driver runs at the end
    compiler_ctx,   \* the CompilerCtx main fills from the command line
    c_file      \* whether the generated .c file is on the disk

vars ==
    <<pc, ast, sem, idx, bidx, reported, ir, code, tokens, parsed, lex, probe, cc,
      compiler_ctx, c_file>>

(***************************************************************************)
(* Numbers.  Expr::Number holds an i128; TLC's integers are 32 bits wide,  *)
(* so a number is kept at its width as eight limbs of sixteen bits, the    *)
(* least significant first, in two's complement: the value of n is         *)
(* n[1] + n[2] * 2^16 + .. + n[8] * 2^112, minus 2^128 when n[8] >= 2^15.  *)
(***************************************************************************)
Limb == 256 * 256

Limbs == 8

\* The limbs f[1] .. f[8] as a tuple.
I128(f) == <<f[1], f[2], f[3], f[4], f[5], f[6], f[7], f[8]>>

\* The i128 of value hi * 2^16 + lo, for lo in 0..65535 and any hi TLC holds.
Num(hi, lo) ==
    I128([i \in 1..Limbs |->
            CASE i = 1 -> lo
              [] i = 2 -> hi % Limb
              [] i = 3 -> (hi \div Limb) % Limb
              [] OTHER -> IF hi < 0 THEN Limb - 1 ELSE 0])

IsNegative(n) == n[Limbs] >= Limb \div 2

\* a < b and a <= b on i128
NumLT(a, b) ==
    IF IsNegative(a) # IsNegative(b) THEN IsNegative(a)
    ELSE \E i \in 1..Limbs : a[i] < b[i] /\ \A j \in (i + 1)..Limbs : a[j] = b[j]

NumLE(a, b) == a = b \/ NumLT(a, b)

\* u32::MIN as i128
NumZero == Num(0, 0)

\* i32::MIN as i128 = -2147483648 = -32768 * 2^16
I32Min == Num(-32768, 0)

\* i32::MAX = 2147483647 = 32767 * 2^16 + 65535
I32Max == Num(32767, Limb - 1)

\* u32::MAX = 4294967295 = 65535 * 2^16 + 65535
U32Max == Num(Limb - 1, Limb - 1)

(***************************************************************************)
(* parser.rs: Op, Type, Expr, Stmts.                                       *)
(***************************************************************************)
Ops == {"Equal", "NotEqual", "Or", "Add", "Minus", "Div", "Mult", "Mod", "And"}

Types == {"Nat", "String", "Int", "Bool", "Void", "Unknown"}

ENumber(n) == [e |-> "Number", num |-> n]
EString(s) == [e |-> "String", str |-> s]
EBool(b) == [e |-> "Bool", val |-> b]
EVariable(name) == [e |-> "Variable", name |-> name]
ECall(name, args) == [e |-> "SubprogramCall", name |-> name, args |-> args]
EBinary(op, lhs, rhs) == [e |-> "Binary", op |-> op, lhs |-> lhs, rhs |-> rhs]

Param(name, t) == [name |-> name, param_type |-> t]

SWrite(t, expr) == [s |-> "Write", type_ |-> t, expr |-> expr]
SReturn(t, expr) == [s |-> "Return", return_type |-> t, expr |-> expr]
SSet(name, t, mutable, expr) ==
    [s |-> "Set", name |-> name, var_type |-> t, mutable |-> mutable, expr |-> expr]
SAssign(name, expr) == [s |-> "Assign", name |-> name, expr |-> expr]
SDef(name, rt, params, stmts) ==
    [s |-> "SubProgramDef", name |-> name, return_type |-> rt,
     params |-> params, stmts |-> stmts]
SIf(expr, stmts) == [s |-> "If", expr |-> expr, stmts |-> stmts]
SElse(stmts) == [s |-> "Else", stmts |-> stmts]
SCall(name, args) == [s |-> "SubProgramCall", name |-> name, args |-> args]

(***************************************************************************)
(* semantic.rs: the analyzer.  A HashMap is a function on its key set.     *)
(* `visited` counts the statements analyze_stmt was entered for, and       *)
(* `panic` is set when the code reaches todo!() or indexes past a Vec.     *)
(***************************************************************************)
EmptyMap == [k \in {} |-> 0]

MapInsert(m, k, v) == [x \in (DOMAIN m) \cup {k} |-> IF x = k THEN v ELSE m[x]]

SubProgCtx(param_types, return_type) ==
    [param_types |-> param_types, return_type |-> return_type]

VarCtx(var_type, mutable) == [var_type |-> var_type, mutable |-> mutable]

SemError(kind, name) == [kind |-> kind, name |-> name]

NewAnalyzer ==
    [is_subprogram |-> FALSE,
     expected_return_type |-> "Unknown",
     subprogram_table |-> EmptyMap,
     local_var_table |-> EmptyMap,
     errors |-> <<>>,
     panic |-> FALSE,
     visited |-> 0]

PushError(st, kind, name) ==
    [st EXCEPT !.errors = Append(@, SemError(kind, name))]

Panic(st) == [st EXCEPT !.panic = TRUE]

Typed(st, t) == [st |-> st, type |-> t]

(***************************************************************************)
(* analyze_expr, Expr::Number arm (semantic.rs 119-167).                   *)
(***************************************************************************)
\* AnalyzeNumber with the signed range tested with < instead of <=.
AnalyzeNumberStrictBound(st, num, expected_type) ==
    IF expected_type = "Unknown"
    THEN IF NumLE(I32Min, num) /\ NumLT(num, I32Max) THEN Typed(st, "Int")
         ELSE IF NumLE(NumZero, num) /\ NumLE(num, U32Max) THEN Typed(st, "Nat")
         ELSE Typed(Panic(st), expected_type)
    ELSE IF expected_type = "Int"
    THEN IF NumLT(num, I32Min)
         THEN Typed(PushError(st, "number too small for int", ""), expected_type)
         ELSE IF NumLT(I32Max, num)
         THEN Typed(PushError(st, "number too large for int", ""), expected_type)
         ELSE Typed(st, expected_type)
    ELSE IF expected_type = "Nat"
    THEN IF NumLT(num, NumZero)
         THEN Typed(PushError(st, "number too small for nat", ""), expected_type)
         ELSE IF NumLT(U32Max, num)
         THEN Typed(PushError(st, "number too large for nat", ""), expected_type)
         ELSE Typed(st, expected_type)
    ELSE Typed(Panic(st), expected_type)

AnalyzeNumber(st, num, expected_type) ==
    IF expected_type = "Unknown"
    THEN IF NumLE(I32Min, num) /\ NumLE(num, I32Max) THEN Typed(st, "Int")
         ELSE IF NumLE(NumZero, num) /\ NumLE(num, U32Max) THEN Typed(st, "Nat")
         ELSE Typed(Panic(st), expected_type)                       \* todo!()
    ELSE IF expected_type = "Int"
    THEN IF NumLT(num, I32Min)
         THEN Typed(PushError(st, "number too small for int", ""), expected_type)
         ELSE IF NumLT(I32Max, num)
         THEN Typed(PushError(st, "number too large for int", ""), expected_type)
         ELSE Typed(st, expected_type)
    ELSE IF expected_type = "Nat"
    THEN IF NumLT(num, NumZero)
         THEN Typed(PushError(st, "number too small for nat", ""), expected_type)
         ELSE IF NumLT(U32Max, num)
         THEN Typed(PushError(st, "number too large for nat", ""), expected_type)
         ELSE Typed(st, expected_type)
    ELSE Typed(Panic(st), expected_type)                            \* todo!()

(***************************************************************************)
(* analyze_expr (semantic.rs 116-235).  A panic unwinds: once st.panic is  *)
(* set nothing more is evaluated.                                          *)
(***************************************************************************)
RECURSIVE AnalyzeExpr(_, _, _), AnalyzeArgs(_, _, _, _)

\* for (i, arg) in args.iter().enumerate() { analyze_expr(arg, arg_types[i]) }
\* (semantic.rs 211-213 and 357-359); arg_types[i] past the Vec's end panics.
AnalyzeArgs(st, args, arg_types, i) ==
    IF st.panic \/ i > Len(args) THEN st
    ELSE IF i > Len(arg_types) THEN Panic(st)
    ELSE AnalyzeArgs(AnalyzeExpr(st, args[i], arg_types[i]).st, args, arg_types, i + 1)

AnalyzeExpr(st, expr, expected_type) ==
    IF st.panic THEN Typed(st, expected_type)
    ELSE CASE expr.e = "Number" -> AnalyzeNumber(st, expr.num, expected_type)
      [] expr.e = "Bool" ->
            IF expected_type = "Bool" \/ expected_type = "Unknown"
            THEN Typed(st, "Bool")
            ELSE Typed(PushError(st, "expected type, found boolean", expected_type),
                       expected_type)
      [] expr.e = "String" ->
            IF expected_type = "String" \/ expected_type = "Unknown"
            THEN Typed(st, "String")
            ELSE Typed(PushError(st, "expected type, found string literal", expected_type),
                       expected_type)
      [] expr.e = "Variable" ->
            IF expr.name \notin DOMAIN st.local_var_table
            THEN Typed(PushError(st, "use of unknown variable", expr.name), expected_type)
            ELSE Typed(st, st.local_var_table[expr.name].var_type)
      [] expr.e = "SubprogramCall" ->
            IF expr.name \notin DOMAIN st.subprogram_table
            THEN Typed(PushError(st, "subprogram is not defined", expr.name), expected_type)
            ELSE LET arg_types == st.subprogram_table[expr.name].param_types
                     st1 == AnalyzeArgs(st, expr.args, arg_types, 1)
                 IN  Typed(st1, st.subprogram_table[expr.name].return_type)
      [] expr.e = "Binary" ->
            LET l == AnalyzeExpr(st, expr.lhs, expected_type)
                r == AnalyzeExpr(l.st, expr.rhs, expected_type)
            IN  IF r.st.panic THEN Typed(r.st, l.type)
                ELSE IF r.type # l.type
                THEN Typed(PushError(r.st, "type mismatch in binary expression", ""), l.type)
                ELSE Typed(r.st, l.type)

(***************************************************************************)
(* analyze_stmt (semantic.rs 237-388).  The result is the analyzer and the *)
(* node with the types the analyzer wrote into it.  The While arm of the   *)
(* source matches no variant of parser.rs's Stmts and is not modelled.     *)
(***************************************************************************)
Done(st, node) == [st |-> st, node |-> node]

\* Stmts::Assign (semantic.rs 279-298)
AnalyzeAssign(st, node) ==
    IF node.name \notin DOMAIN st.local_var_table
    THEN Done(PushError(st, "assign to unexisting variable", node.name), node)
    ELSE LET var_ctx == st.local_var_table[node.name]
         IN  IF var_ctx.mutable
             THEN Done(AnalyzeExpr(st, node.expr, var_ctx.var_type).st, node)
             ELSE Done(PushError(st, "assign to immutable variable", node.name), node)

\* Stmts::Set (semantic.rs 257-278)
AnalyzeSet(st, node) ==
    LET st1 == IF node.name \in DOMAIN st.local_var_table
               THEN PushError(st, "redefinition of variable", node.name)
               ELSE st
        r == AnalyzeExpr(st1, node.expr, node.var_type)
    IN  IF r.st.panic THEN Done(r.st, node)
        ELSE Done([r.st EXCEPT !.local_var_table =
                       MapInsert(@, node.name, VarCtx(r.type, node.mutable))],
                  [node EXCEPT !.var_type = r.type])

\* AnalyzeWrite leaving the node's type as the parser wrote it.
AnalyzeWriteNoAnnotation(st, node) ==
    Done(AnalyzeExpr(st, node.expr, "Unknown").st, node)

\* Stmts::Write (semantic.rs 239-242)
AnalyzeWrite(st, node) ==
    LET r == AnalyzeExpr(st, node.expr, "Unknown")
    IN  IF r.st.panic THEN Done(r.st, node)
        ELSE Done(r.st, [node EXCEPT !.type_ = r.type])

\* AnalyzeReturn without the comparison with expected_return_type.
AnalyzeReturnUnchecked(st, node) ==
    LET r == AnalyzeExpr(st, node.expr, "Unknown")
    IN  IF r.st.panic THEN Done(r.st, node)
        ELSE Done(r.st, [node EXCEPT !.return_type = r.type])

\* Stmts::Return (semantic.rs 243-256)
AnalyzeReturn(st, node) ==
    LET r == AnalyzeExpr(st, node.expr, "Unknown")
    IN  IF r.st.panic THEN Done(r.st, node)
        ELSE Done(IF r.type # r.st.expected_return_type
                  THEN PushError(r.st, "unexpected return type", r.type)
                  ELSE r.st,
                  [node EXCEPT !.return_type = r.type])

\* Stmts::SubProgramCall (semantic.rs 348-366)
AnalyzeCallStmt(st, node) ==
    IF node.name \notin DOMAIN st.subprogram_table
    THEN Done(PushError(st, "subprogram is not defined", node.name), node)
    ELSE LET arg_types == st.subprogram_table[node.name].param_types
             st1 == AnalyzeArgs(st, node.args, arg_types, 1)
         IN  IF st1.panic THEN Done(st1, node)
             ELSE IF st.subprogram_table[node.name].return_type # "Void"
             THEN Done(PushError(st1, "subprogram returns a value which is not used",
                                 node.name), node)
             ELSE Done(st1, node)

\* for param in params { local_var_table.insert(..) } (semantic.rs 315-323)
RECURSIVE InsertParams(_, _, _)
InsertParams(table, params, i) ==
    IF i > Len(params) THEN table
    ELSE InsertParams(MapInsert(table, params[i].name,
                                VarCtx(params[i].param_type, FALSE)), params, i + 1)

RECURSIVE AnalyzeStmt(_, _), AnalyzeStmts(_, _, _)

\* for stmt in stmts.iter_mut() { self.analyze_stmt(stmt) }
AnalyzeStmts(st, stmts, i) ==
    IF st.panic \/ i > Len(stmts) THEN [st |-> st, stmts |-> stmts]
    ELSE LET r == AnalyzeStmt(st, stmts[i])
         IN  AnalyzeStmts(r.st, [stmts EXCEPT ![i] = r.node], i + 1)

\* Stmts::SubProgramDef, before the body (semantic.rs 313-323)
EnterSubProgramDef(st, node) ==
    [st EXCEPT !.is_subprogram = TRUE,
               !.expected_return_type = node.return_type,
               !.local_var_table = InsertParams(@, node.params, 1)]

\* return_stmt_exists once the loop over the body is over (semantic.rs 324-337)
ReturnStmtExists(stmts) == \E i \in 1..Len(stmts) : stmts[i].s = "Return"

\* Stmts::SubProgramDef, after the body (semantic.rs 338-346)
LeaveSubProgramDef(st, node) ==
    IF ~ReturnStmtExists(node.stmts) /\ st.expected_return_type # "Void"
    THEN PushError(st, "subprogram does not have a return statement", node.name)
    ELSE [st EXCEPT !.local_var_table = EmptyMap, !.is_subprogram = FALSE]

\* Stmts::SubProgramDef (semantic.rs 300-347)
AnalyzeSubProgramDef(st, node) ==
    IF st.is_subprogram
    THEN Done(PushError(st, "cannot define subprogram inside another subprogram",
                        node.name), node)
    ELSE LET body == AnalyzeStmts(EnterSubProgramDef(st, node), node.stmts, 1)
             node1 == [node EXCEPT !.stmts = body.stmts]
         IN  IF body.st.panic THEN Done(body.st, node1)
             ELSE Done(LeaveSubProgramDef(body.st, node1), node1)

\* AnalyzeIf dropping the variables declared in the block when it ends.
AnalyzeIfScoped(st, node) ==
    LET r == AnalyzeExpr(st, node.expr, "Unknown")
        body == AnalyzeStmts(r.st, node.stmts, 1)
    IN  Done([body.st EXCEPT !.local_var_table = st.local_var_table],
             [node EXCEPT !.stmts = body.stmts])

\* Stmts::If (semantic.rs 367-373)
AnalyzeIf(st, node) ==
    LET r == AnalyzeExpr(st, node.expr, "Unknown")
        body == AnalyzeStmts(r.st, node.stmts, 1)
    IN  Done(body.st, [node EXCEPT !.stmts = body.stmts])

\* Stmts::Else (semantic.rs 382-386)
AnalyzeElse(st, node) ==
    LET body == AnalyzeStmts(st, node.stmts, 1)
    IN  Done(body.st, [node EXCEPT !.stmts = body.stmts])

AnalyzeStmt(st0, node) ==
    IF st0.panic THEN Done(st0, node)
    ELSE LET st == [st0 EXCEPT !.visited = @ + 1]
         IN CASE node.s = "Write" -> AnalyzeWrite(st, node)
              [] node.s = "Return" -> AnalyzeReturn(st, node)
              [] node.s = "Set" -> AnalyzeSet(st, node)
              [] node.s = "Assign" -> AnalyzeAssign(st, node)
              [] node.s = "SubProgramDef" -> AnalyzeSubProgramDef(st, node)
              [] node.s = "SubProgramCall" -> AnalyzeCallStmt(st, node)
              [] node.s = "If" -> AnalyzeIf(st, node)
              [] node.s = "Else" -> AnalyzeElse(st, node)

(***************************************************************************)
(* ir.rs: CirGenerator.  A result is [ok, val]; ok is FALSE when the code  *)
(* panics (unreachable!() in to_c_type, todo!() in generate_stmt_cir).     *)
(***************************************************************************)
Ok(v) == [ok |-> TRUE, val |-> v]
Abort == [ok |-> FALSE, val |-> <<>>]

\* to_c_type (ir.rs 110-119)
ToCType(type_) ==
    CASE type_ = "Nat" -> Ok("Uint")
      [] type_ = "String" -> Ok("String")
      [] type_ = "Int" -> Ok("Int")
      [] type_ = "Bool" -> Ok("Bool")
      [] type_ = "Void" -> Ok("Void")
      [] type_ = "Unknown" -> Abort

\* to_c_value (ir.rs 121-141)
RECURSIVE ToCValue(_)
ToCValue(expr) ==
    CASE expr.e = "String" -> [v |-> "StringLiteral", str |-> expr.str]
      [] expr.e = "Number" -> [v |-> "NumLiteral", num |-> expr.num]
      [] expr.e = "Bool" -> [v |-> "Bool", val |-> expr.val]
      [] expr.e = "Binary" ->
            [v |-> "BinaryOp", lhs |-> ToCValue(expr.lhs), op |-> expr.op,
             rhs |-> ToCValue(expr.rhs)]
      [] expr.e = "Variable" -> [v |-> "Variable", name |-> expr.name]
      [] expr.e = "SubprogramCall" ->
            [v |-> "SubProgCall", name |-> expr.name,
             args |-> [i \in 1..Len(expr.args) |-> ToCValue(expr.args[i])]]

RECURSIVE ToCParams(_, _, _)
ToCParams(params, i, acc) ==
    IF i > Len(params) THEN Ok(acc)
    ELSE LET t == ToCType(params[i].param_type)
         IN  IF ~t.ok THEN Abort
             ELSE ToCParams(params, i + 1,
                            Append(acc, [name |-> params[i].name, param_type |-> t.val]))

RECURSIVE GenerateStmtCir(_), GenerateStmtsCir(_, _, _)

\* for stmt in stmts { stmts_cir.push(self.generate_stmt_cir(stmt)) }
GenerateStmtsCir(stmts, i, acc) ==
    IF i > Len(stmts) THEN Ok(acc)
    ELSE LET c == GenerateStmtCir(stmts[i])
         IN  IF ~c.ok THEN Abort ELSE GenerateStmtsCir(stmts, i + 1, Append(acc, c.val))

\* The todo!() arm of generate_stmt_cir (ir.rs 207)
CirOfCallStmt(node) == Abort

\* generate_stmt_cir (ir.rs 142-209)
GenerateStmtCir(node) ==
    CASE node.s = "Write" ->
            LET ctype == ToCType(node.type_)
            IN  IF ~ctype.ok THEN Abort
                ELSE Ok([c |-> "Write", ctype |-> ctype.val, cvalue |-> ToCValue(node.expr)])
      [] node.s = "Return" -> Ok([c |-> "Return", cvalue |-> ToCValue(node.expr)])
      [] node.s = "SubProgramDef" ->
            LET return_type == ToCType(node.return_type)
                stmts_cir == GenerateStmtsCir(node.stmts, 1, <<>>)
                cparams == ToCParams(node.params, 1, <<>>)
            IN  IF ~return_type.ok \/ ~stmts_cir.ok \/ ~cparams.ok THEN Abort
                ELSE Ok([c |-> "SubProgDef", name |-> node.name, cparams |-> cparams.val,
                         return_type |-> return_type.val, stmts_cir |-> stmts_cir.val])
      [] node.s = "If" ->
            LET stmts_cir == GenerateStmtsCir(node.stmts, 1, <<>>)
            IN  IF ~stmts_cir.ok THEN Abort
                ELSE Ok([c |-> "If", cvalue |-> ToCValue(node.expr),
                         stmts_cir |-> stmts_cir.val])
      [] node.s = "Set" ->
            LET ctype == ToCType(node.var_type)
            IN  IF ~ctype.ok THEN Abort
                ELSE Ok([c |-> "VariableDef", name |-> node.name, ctype |-> ctype.val,
                         cvalue |-> ToCValue(node.expr), mutable |-> node.mutable])
      [] node.s = "Assign" ->
            Ok([c |-> "VarAssign", name |-> node.name, cvalue |-> ToCValue(node.expr)])
      [] node.s = "Else" ->
            LET stmts_cir == GenerateStmtsCir(node.stmts, 1, <<>>)
            IN  IF ~stmts_cir.ok THEN Abort
                ELSE Ok([c |-> "Else", stmts_cir |-> stmts_cir.val])
      [] node.s = "SubProgramCall" -> CirOfCallStmt(node)

\* generate_cir (ir.rs 104-108)
GenerateCir(nodes) == GenerateStmtsCir(nodes, 1, <<>>)

(***************************************************************************)
(* ir.rs: the Display impls.  Text is a sequence of pieces of text.        *)
(***************************************************************************)
\* Display of an i128: a `-` when it is negative, then the decimal digits of
\* its magnitude, by long division of the limbs from the most significant.
DigitChar(d) == <<"0", "1", "2", "3", "4", "5", "6", "7", "8", "9">>[d + 1]

\* The remainder the division by 10 carries into limb i - 1.
RECURSIVE Rem10(_, _)
Rem10(n, i) == IF i > Limbs THEN 0 ELSE (Rem10(n, i + 1) * Limb + n[i]) % 10

NumDiv10(n) == I128([i \in 1..Limbs |-> (Rem10(n, i + 1) * Limb + n[i]) \div 10])

NumMod10(n) == Rem10(n, 1)

\* The carry of -n = ~n + 1 into limb i, and -n.
RECURSIVE NegateCarry(_, _)
NegateCarry(n, i) ==
    IF i = 1 THEN 1 ELSE (Limb - 1 - n[i - 1] + NegateCarry(n, i - 1)) \div Limb

Negate(n) == I128([i \in 1..Limbs |-> (Limb - 1 - n[i] + NegateCarry(n, i)) % Limb])

RECURSIVE ShowMagnitude(_)
ShowMagnitude(n) ==
    IF n[1] < 10 /\ \A i \in 2..Limbs : n[i] = 0 THEN DigitChar(n[1])
    ELSE ShowMagnitude(NumDiv10(n)) \o DigitChar(NumMod10(n))

ShowNum(n) == IF IsNegative(n) THEN "-" \o ShowMagnitude(Negate(n)) ELSE ShowMagnitude(n)

\* impl Display for CType (ir.rs 19-29)
ShowCType(ctype) ==
    CASE ctype = "Int" -> "int32_t"
      [] ctype = "Uint" -> "unt32_t"
      [] ctype = "String" -> "string_t"
      [] ctype = "Bool" -> "bool"
      [] ctype = "Void" -> "void"

\* The operator tokens of the second match of Display for CValue (ir.rs 54-64)
ShowOp(op) ==
    CASE op = "Add" -> "+"
      [] op = "Minus" -> "-"
      [] op = "Mult" -> "*"
      [] op = "Div" -> "/"
      [] op = "Mod" -> "%"
      [] op = "Equal" -> "=="
      [] op = "NotEqual" -> "!="
      [] op = "And" -> "&&"
      [] op = "Or" -> "||"

RECURSIVE ShowCValue(_), ShowArgs(_, _, _)

\* args.iter().map(|arg| arg.to_string()).collect().join(", ")
ShowArgs(args, i, acc) ==
    IF i > Len(args) THEN Ok(acc)
    ELSE LET a == ShowCValue(args[i])
         IN  IF ~a.ok THEN Abort
             ELSE ShowArgs(args, i + 1,
                           IF i = 1 THEN a.val ELSE acc \o <<", ">> \o a.val)

\* impl Display for CValue (ir.rs 40-80)
ShowCValue(cv) ==
    CASE cv.v = "NumLiteral" -> Ok(<<ShowNum(cv.num)>>)
      [] cv.v = "StringLiteral" -> Ok(<<"StrLit(\"", cv.str, "\")">>)
      [] cv.v = "Variable" -> Ok(<<cv.name>>)
      [] cv.v = "Bool" -> Ok(<<IF cv.val THEN "true" ELSE "false">>)
      [] cv.v = "BinaryOp" ->
            LET lhs == ShowCValue(cv.lhs)
                rhs == ShowCValue(cv.rhs)
            IN  IF cv.lhs.v = "StringLiteral"
                THEN IF cv.op = "Add"
                     THEN IF ~lhs.ok \/ ~rhs.ok THEN Abort
                          ELSE Ok(<<"string_concat(&gc, &">> \o lhs.val \o <<", &">>
                                  \o rhs.val \o <<")">>)
                     ELSE Abort                                     \* unreachable!()
                ELSE IF ~lhs.ok \/ ~rhs.ok THEN Abort
                     ELSE Ok(lhs.val \o <<" ", ShowOp(cv.op), " ">> \o rhs.val)
      [] cv.v = "SubProgCall" ->
            LET args == ShowArgs(cv.args, 1, <<>>)
            IN  IF ~args.ok THEN Abort
                ELSE Ok(<<cv.name, "(">> \o args.val \o <<")">>)

(***************************************************************************)
(* codegen.rs: CodeGen, with its sink and its is_main flag; panic is set   *)
(* when formatting a value panics.                                         *)
(***************************************************************************)
NewCodeGen == [sink |-> <<>>, is_main |-> FALSE, panic |-> FALSE]

Emit(cg, pieces) == [cg EXCEPT !.sink = @ \o pieces]

\* Emit the pieces around a formatted value, or panic with it.
EmitValue(cg, before, cvalue, after) ==
    LET text == ShowCValue(cvalue)
    IN  IF ~text.ok THEN [cg EXCEPT !.panic = TRUE]
        ELSE Emit(cg, before \o text.val \o after)

\* generate_prelude (codegen.rs 17-21)
GeneratePrelude(cg) ==
    Emit(cg, <<"#include <pseudo.h>", "\n", "static tgc_t gc;", "\n">>)

\* generate_write_stmt (codegen.rs 23-44)
GenerateWriteStmt(cg, ctype, cvalue) ==
    CASE ctype = "Int" -> EmitValue(cg, <<"print_int(">>, cvalue, <<")", ";", "\n">>)
      [] ctype = "Uint" -> EmitValue(cg, <<"print_uint(">>, cvalue, <<")", ";", "\n">>)
      [] ctype = "String" -> EmitValue(cg, <<"print_str(">>, cvalue, <<")", ";", "\n">>)
      [] ctype = "Bool" -> EmitValue(cg, <<"print_bool(">>, cvalue, <<")", ";", "\n">>)
      [] ctype = "Void" -> Emit(cg, <<"void", ";", "\n">>)

\* generate_return_stmt (codegen.rs 46-52)
GenerateReturnStmt(cg, cvalue) ==
    LET cg1 == IF cg.is_main THEN Emit(cg, <<"tgc_stop(&gc);", "\n">>) ELSE cg
    IN  EmitValue(cg1, <<"return ">>, cvalue, <<";", "\n">>)

\* param_strings.join(", ") (codegen.rs 67-71)
RECURSIVE ShowParams(_, _, _)
ShowParams(cparams, i, acc) ==
    IF i > Len(cparams) THEN acc
    ELSE ShowParams(cparams, i + 1,
                    acc \o (IF i = 1 THEN <<>> ELSE <<", ">>)
                        \o <<ShowCType(cparams[i].param_type), " ", cparams[i].name>>)

\* generate_set_stmt (codegen.rs 90-102)
GenerateSetStmt(cg, name, var_type, expr, mutable) ==
    LET cg1 == IF ~mutable THEN Emit(cg, <<"const ">>) ELSE cg
    IN  EmitValue(cg1, <<ShowCType(var_type), " ", name, " = ">>, expr, <<";", "\n">>)

\* generate_varassign_stmt (codegen.rs 104-107)
GenerateVarAssignStmt(cg, name, expr) ==
    EmitValue(cg, <<name, " = ">>, expr, <<";", "\n">>)

RECURSIVE GenerateStmts(_, _, _)

\* GenerateSubProgDefStmt keeping is_main once main has been emitted.
GenerateSubProgDefStmtStickyMain(cg, name, cparams, return_type, stmts) ==
    LET is_main == (cg.is_main \/ name = "main")
        cg1 == Emit([cg EXCEPT !.is_main = is_main], <<ShowCType(return_type), " ", name>>)
        cg2 == IF is_main THEN Emit(cg1, <<"(int argc, char** argv)">>)
               ELSE Emit(cg1, <<"(">> \o ShowParams(cparams, 1, <<>>) \o <<")">>)
        cg3 == Emit(cg2, <<"{", "\n">>)
        cg4 == IF is_main THEN Emit(cg3, <<"tgc_start(&gc, &argc);", "\n">>) ELSE cg3
        cg5 == GenerateStmts(cg4, stmts, 1)
    IN  IF cg5.panic THEN cg5 ELSE Emit(cg5, <<"}", "\n">>)

\* generate_subprogdef_stmt (codegen.rs 54-81)
GenerateSubProgDefStmt(cg, name, cparams, return_type, stmts) ==
    LET is_main == (name = "main")
        cg1 == Emit([cg EXCEPT !.is_main = is_main], <<ShowCType(return_type), " ", name>>)
        cg2 == IF is_main THEN Emit(cg1, <<"(int argc, char** argv)">>)
               ELSE Emit(cg1, <<"(">> \o ShowParams(cparams, 1, <<>>) \o <<")">>)
        cg3 == Emit(cg2, <<"{", "\n">>)
        cg4 == IF is_main THEN Emit(cg3, <<"tgc_start(&gc, &argc);", "\n">>) ELSE cg3
        cg5 == GenerateStmts(cg4, stmts, 1)
    IN  IF cg5.panic THEN cg5 ELSE Emit(cg5, <<"}", "\n">>)

\* generate_if_stmt (codegen.rs 83-88)
GenerateIfStmt(cg, expr, stmts) ==
    LET cg1 == EmitValue(cg, <<"if (">>, expr, <<") {", "\n">>)
        cg2 == IF cg1.panic THEN cg1 ELSE GenerateStmts(cg1, stmts, 1)
    IN  IF cg2.panic THEN cg2 ELSE Emit(cg2, <<"}", "\n">>)

\* generate_else_stmt (codegen.rs 109-114)
GenerateElseStmt(cg, stmts) ==
    GenerateStmts(Emit(cg, <<"}", "\n", "else {", "\n">>), stmts, 1)

\* generate_stmts (codegen.rs 116-143)
GenerateStmts(cg, stmts, i) ==
    IF cg.panic \/ i > Len(stmts) THEN cg
    ELSE LET stmt == stmts[i]
             cg1 == CASE stmt.c = "Write" -> GenerateWriteStmt(cg, stmt.ctype, stmt.cvalue)
                      [] stmt.c = "Return" -> GenerateReturnStmt(cg, stmt.cvalue)
                      [] stmt.c = "If" -> GenerateIfStmt(cg, stmt.cvalue, stmt.stmts_cir)
                      [] stmt.c = "Else" -> GenerateElseStmt(cg, stmt.stmts_cir)
                      [] stmt.c = "SubProgDef" ->
                            GenerateSubProgDefStmt(cg, stmt.name, stmt.cparams,
                                                   stmt.return_type, stmt.stmts_cir)
                      [] stmt.c = "VariableDef" ->
                            GenerateSetStmt(cg, stmt.name, stmt.ctype, stmt.cvalue,
                                            stmt.mutable)
                      [] stmt.c = "VarAssign" ->
                            GenerateVarAssignStmt(cg, stmt.name, stmt.cvalue)
         IN  GenerateStmts(cg1, stmts, i + 1)

\* generate_c_code (codegen.rs 145-149)
GenerateCCode(cir) == GenerateStmts(GeneratePrelude(NewCodeGen), cir, 1)

(***************************************************************************)
(* The programs the pipeline is run on: ASTs the parser can build (an Else *)
(* node takes every statement up to the end of its block, so it is the     *)
(* last node of its list; no type annotation is filled in yet).            *)
(***************************************************************************)
MaxBody == 2
MaxArgs == 2

One == ENumber(Num(0, 1))
TwoTo32 == ENumber(Num(Limb, 0))
StrA == EString("a")

SeqsUpTo(S, n) == UNION {[1..k -> S] : k \in 0..n}

ArgLists == SeqsUpTo({One}, MaxArgs)

SimpleStmts ==
    {SWrite("Unknown", e) : e \in {EVariable("x"), EBinary("Add", StrA, StrA),
                                    EBinary("Add", ECall("f", <<>>), StrA),
                                    EBinary("Equal", StrA, StrA)}}
    \cup {SReturn("Unknown", e) : e \in {One, StrA, ECall("f", <<>>)}}
    \cup {SSet("x", "Unknown", TRUE, One), SSet("x", "Int", FALSE, One),
          SSet("x", "String", FALSE, One), SSet("x", "Unknown", FALSE, TwoTo32)}
    \cup {SAssign("x", e) : e \in {One, StrA}}
    \cup {SCall("f", args) : args \in ArgLists}

BlockStmts ==
    {SIf(EBool(TRUE), <<st>>) : st \in {SReturn("Unknown", One), SSet("x", "Unknown", TRUE, One)}}
    \cup {SIf(EBool(TRUE), <<SWrite("Unknown", One), SElse(<<SReturn("Unknown", One)>>)>>)}
    \cup {SDef("g", "Void", <<>>, <<>>)}

ElseStmts == {SElse(<<SReturn("Unknown", One)>>)}

\* Else, where it occurs, is the last statement of the list.
ElseLast(b) == \A i \in 1..Len(b) : b[i].s = "Else" => i = Len(b)

Bodies ==
    {b \in SeqsUpTo(SimpleStmts \cup BlockStmts \cup ElseStmts, MaxBody) : ElseLast(b)}

Helpers ==
    {SDef("f", "Int", <<Param("a", "Int")>>, <<SReturn("Unknown", EVariable("a"))>>),
     SDef("f", "Void", <<>>, <<>>),
     SDef("f", "String", <<>>, <<SReturn("Unknown", StrA)>>),
     SDef("f", "Nat", <<Param("a", "Nat")>>, <<SReturn("Unknown", EVariable("a"))>>),
     SDef("f", "Int", <<Param("x", "Int")>>, <<>>),
     SDef("f", "Int", <<Param("x", "Int")>>, <<SSet("x", "Unknown", TRUE, One)>>),
     SDef("f", "Void", <<>>, <<SDef("main", "Int", <<>>, <<SReturn("Unknown", One)>>)>>),
     SDef("main", "Int", <<>>, <<SReturn("Unknown", One)>>),
     SDef("f", "Int", <<>>, <<SWrite("Unknown", One)>>),
     SDef("f", "Void", <<>>, <<SWrite("Unknown", One)>>),
     SWrite("Unknown", One)}

MainDefs ==
    {SDef("main", "Int", <<>>, b) : b \in Bodies}
    \cup {SDef("main", rt, ps, <<SReturn("Unknown", One)>>) :
            rt \in {"Void", "String", "Nat"}, ps \in {<<>>, <<Param("a", "Int")>>}}

\* A program: main alone, main before or after one other top-level node, or
\* no main at all.
Shapes == {"m", "hm", "mh", "h", "none"}

Program(shape, h, m) ==
    CASE shape = "m" -> <<m>>
      [] shape = "hm" -> <<h, m>>
      [] shape = "mh" -> <<m, h>>
      [] shape = "h" -> <<h>>
      [] shape = "none" -> <<>>

(***************************************************************************)
(* The driver (main.rs 96-105) and analyze_ast (semantic.rs 47-113), one   *)
(* step per loop iteration.                                                *)
(***************************************************************************)
\* RegisterSignature skipping a second definition of a name without an error.
RegisterSignatureSilentRedefinition(st, node) ==
    IF node.s # "SubProgramDef" THEN st
    ELSE IF node.name \in DOMAIN st.subprogram_table THEN st
    ELSE LET is_main == (node.name = "main")
             st1 == IF is_main /\ node.return_type = "Void"
                    THEN PushError(st, "main should be a function not a procedure", "")
                    ELSE IF is_main /\ node.return_type # "Int"
                    THEN PushError(st, "main function must have return type Int", "")
                    ELSE st
             st2 == IF is_main /\ Len(node.params) # 0
                    THEN PushError(st1, "main function does not take any arguement", "")
                    ELSE st1
             param_types == [i \in 1..Len(node.params) |-> node.params[i].param_type]
         IN  [st2 EXCEPT !.subprogram_table =
                  MapInsert(@, node.name, SubProgCtx(param_types, node.return_type))]

\* RegisterSignature recording the signature of main only.
RegisterSignatureMainOnly(st, node) ==
    IF node.s # "SubProgramDef" \/ node.name # "main" THEN st
    ELSE [st EXCEPT !.subprogram_table =
              MapInsert(@, node.name,
                        SubProgCtx([i \in 1..Len(node.params) |-> node.params[i].param_type],
                                   node.return_type))]

\* One iteration of the signature loop (semantic.rs 48-97)
RegisterSignature(st, node) ==
    IF node.s # "SubProgramDef" THEN st
    ELSE IF node.name \in DOMAIN st.subprogram_table
    THEN PushError(st, "redefinition of function", node.name)
    ELSE LET is_main == (node.name = "main")
             st1 == IF is_main /\ node.return_type = "Void"
                    THEN PushError(st, "main should be a function not a procedure", "")
                    ELSE IF is_main /\ node.return_type # "Int"
                    THEN PushError(st, "main function must have return type Int", "")
                    ELSE st
             st2 == IF is_main /\ Len(node.params) # 0
                    THEN PushError(st1, "main function does not take any arguement", "")
                    ELSE st1
             param_types == [i \in 1..Len(node.params) |-> node.params[i].param_type]
         IN  [st2 EXCEPT !.subprogram_table =
                  MapInsert(@, node.name, SubProgCtx(param_types, node.return_type))]

\* The native C compiler has not been run.
NotRun == "not_run"

\* CompilerCtx (main.rs 24-30, 56, 71-76) by the field the driver's outcome
\* depends on: keep_ir_output is set by --keep and false by default.
CompilerCtx(keep_ir_output) == [keep_ir_output |-> keep_ir_output]

\* The .c file on the disk; a run starts with no such file there.
Absent == "absent"
Present == "present"

Init ==
    /\ \E shape \in Shapes, h \in Helpers, m \in MainDefs : ast = Program(shape, h, m)
    /\ pc = "signature"
    /\ sem = NewAnalyzer
    /\ cc = NotRun
    /\ \E keep_ir_output \in BOOLEAN : compiler_ctx = CompilerCtx(keep_ir_output)
    /\ c_file = Absent
    /\ idx = 1
    /\ bidx = 0
    /\ reported = <<>>
    /\ ir = <<>>
    /\ code = <<>>
    /\ tokens = <<>>
    /\ parsed = <<>>
    /\ lex = <<>>
    /\ probe = <<>>

SignaturePass ==
    /\ pc = "signature"
    /\ idx <= Len(ast)
    /\ sem' = RegisterSignature(sem, ast[idx])
    /\ idx' = idx + 1
    /\ UNCHANGED <<pc, ast, bidx, reported, ir, code, tokens, parsed, lex, probe, cc,
                   compiler_ctx, c_file>>

\* MainLookup looking for any registered subprogram instead of main.
MainLookupAnySubprogram ==
    /\ pc = "signature"
    /\ idx > Len(ast)
    /\ pc' = IF DOMAIN sem.subprogram_table # {} THEN "check" ELSE "exit_no_main"
    /\ idx' = 1
    /\ UNCHANGED <<ast, sem, bidx, reported, ir, code, tokens, parsed, lex, probe, cc,
                   compiler_ctx, c_file>>

\* if !self.subprogram_table.contains_key("main") { exit(1) } (semantic.rs 98-101)
MainLookup ==
    /\ pc = "signature"
    /\ idx > Len(ast)
    /\ pc' = IF "main" \in DOMAIN sem.subprogram_table THEN "check" ELSE "exit_no_main"
    /\ idx' = 1
    /\ UNCHANGED <<ast, sem, bidx, reported, ir, code, tokens, parsed, lex, probe, cc,
                   compiler_ctx, c_file>>

\* A top-level node whose body analyze_stmt is about to loop over.
OpensBody(st, node) == node.s = "SubProgramDef" /\ ~st.is_subprogram

\* One iteration of for node in ast { self.analyze_stmt(node) } (semantic.rs 103-105),
\* for every node but a subprogram definition whose body is analyzed.
CheckPass ==
    /\ pc = "check"
    /\ idx <= Len(ast)
    /\ ~OpensBody(sem, ast[idx])
    /\ LET r == AnalyzeStmt(sem, ast[idx])
       IN  /\ sem' = r.st
           /\ ast' = [ast EXCEPT ![idx] = r.node]
           /\ pc' = IF r.st.panic THEN "panic" ELSE "check"
    /\ idx' = idx + 1
    /\ UNCHANGED <<bidx, reported, ir, code, tokens, parsed, lex, probe, cc,
                   compiler_ctx, c_file>>

\* analyze_stmt on a top-level subprogram definition, up to its loop (semantic.rs 300-324)
EnterBody ==
    /\ pc = "check"
    /\ idx <= Len(ast)
    /\ OpensBody(sem, ast[idx])
    /\ sem' = EnterSubProgramDef([sem EXCEPT !.visited = @ + 1], ast[idx])
    /\ pc' = "body"
    /\ bidx' = 1
    /\ UNCHANGED <<ast, idx, reported, ir, code, tokens, parsed, lex, probe, cc,
                   compiler_ctx, c_file>>

\* One iteration of the loop over the body (semantic.rs 326-337)
BodyStep ==
    /\ pc = "body"
    /\ bidx <= Len(ast[idx].stmts)
    /\ LET r == AnalyzeStmt(sem, ast[idx].stmts[bidx])
       IN  /\ sem' = r.st
           /\ ast' = [ast EXCEPT ![idx].stmts[bidx] = r.node]
           /\ pc' = IF r.st.panic THEN "panic" ELSE "body"
    /\ bidx' = bidx + 1
    /\ UNCHANGED <<idx, reported, ir, code, tokens, parsed, lex, probe, cc,
                   compiler_ctx, c_file>>

\* The end of that analyze_stmt (semantic.rs 338-347)
LeaveBody ==
    /\ pc = "body"
    /\ bidx > Len(ast[idx].stmts)
    /\ sem' = LeaveSubProgramDef(sem, ast[idx])
    /\ pc' = "check"
    /\ idx' = idx + 1
    /\ bidx' = 0
    /\ UNCHANGED <<ast, reported, ir, code, tokens, parsed, lex, probe, cc,
                   compiler_ctx, c_file>>

\* EndOfPass printing the errors without the process::exit(1) that follows.
EndOfPassWithoutExit ==
    /\ pc = "check"
    /\ idx > Len(ast)
    /\ reported' = sem.errors
    /\ pc' = "analyzed"
    /\ UNCHANGED <<ast, sem, idx, bidx, ir, code, tokens, parsed, lex, probe, cc,
                   compiler_ctx, c_file>>

\* The end of analyze_ast (semantic.rs 107-113)
EndOfPass ==
    /\ pc = "check"
    /\ idx > Len(ast)
    /\ IF sem.errors # <<>>
       THEN reported' = sem.errors /\ pc' = "exit_errors"
       ELSE reported' = reported /\ pc' = "analyzed"
    /\ UNCHANGED <<ast, sem, idx, bidx, ir, code, tokens, parsed, lex, probe, cc,
                   compiler_ctx, c_file>>

\* let ir = ir_generator.generate_cir(ast) (main.rs 103)
GenerateIr ==
    /\ pc = "analyzed"
    /\ LET r == GenerateCir(ast)
       IN  /\ ir' = r.val
           /\ pc' = IF r.ok THEN "ir_generated" ELSE "panic_ir"
    /\ UNCHANGED <<ast, sem, idx, bidx, reported, code, tokens, parsed, lex, probe, cc,
                   compiler_ctx, c_file>>

\* codegen::generate_c_code(&mut code, ir) (main.rs 104)
GenerateCode ==
    /\ pc = "ir_generated"
    /\ LET cg == GenerateCCode(ir)
       IN  /\ code' = cg.sink
           /\ pc' = IF cg.panic THEN "panic_codegen" ELSE "code_generated"
    /\ UNCHANGED <<ast, sem, idx, bidx, reported, ir, tokens, parsed, lex, probe, cc,
                   compiler_ctx, c_file>>

\* fs::write(&c_file_path, code) (main.rs 112-114): the file system creates
\* the file or refuses to, and then takes the text or refuses it (a full disk,
\* a file size limit), which leaves the file it has created on the disk.  A
\* refusal ends in cli_error's process::exit(1).
WriteCFile ==
    /\ pc = "code_generated"
    /\ \E created \in BOOLEAN, written \in BOOLEAN :
          /\ pc' = IF created /\ written THEN "c_file_written" ELSE "exit_cli_error"
          /\ c_file' = IF created THEN Present ELSE c_file
    /\ UNCHANGED <<ast, sem, idx, bidx, reported, ir, code, tokens, parsed, lex, probe, cc,
                   compiler_ctx>>

\* The outcomes of Command::new("cc").args(args).output(): cc ran and exited
\* with a success or a failure status, or it could not be started.
CcOutcomes == {"success", "failure", "not_started"}

\* compile_c_code (main.rs 32-48) and the end of main (main.rs 119-120): the
\* Output of cc is bound to `_`, and a cc that cannot be started stops the run
\* (expect).  After a cc that ran, the .c file is removed unless --keep was
\* given; the file is still there or not when cc has ended (`remains`), the
\* file system removes a file that is there or refuses to (`removable`), and a
\* remove_file that fails stops the run (expect).  Otherwise main returns,
\* which is exit status 0.
CompileCCode ==
    /\ pc = "c_file_written"
    /\ \E outcome \in CcOutcomes, remains \in BOOLEAN, removable \in BOOLEAN :
          LET ran == outcome # "not_started"
              removes == ran /\ ~compiler_ctx.keep_ir_output
              removed == removes /\ remains /\ removable
          IN  /\ cc' = outcome
              /\ c_file' = IF ~ran THEN c_file
                           ELSE IF remains /\ ~removed THEN Present
                           ELSE Absent
              /\ pc' = IF ~ran THEN "panic_cc"
                       ELSE IF removes /\ ~removed THEN "panic_remove"
                       ELSE "exit_0"
    /\ UNCHANGED <<ast, sem, idx, bidx, reported, ir, code, tokens, parsed, lex, probe,
                   compiler_ctx>>

Next ==
    \/ SignaturePass
    \/ MainLookup
    \/ CheckPass
    \/ EnterBody
    \/ BodyStep
    \/ LeaveBody
    \/ EndOfPass
    \/ GenerateIr
    \/ GenerateCode
    \/ WriteCFile
    \/ CompileCCode

Spec == Init /\ [][Next]_vars

(***************************************************************************)
(* Properties of the pipeline (Spec).                                      *)
(***************************************************************************)
\* The driver's positions after analyze_ast has returned normally.
AfterAnalysis ==
    {"analyzed", "ir_generated", "panic_ir", "code_generated", "panic_codegen",
     "c_file_written", "exit_cli_error", "exit_0", "panic_cc", "panic_remove"}

HasTopLevelMain(nodes) ==
    \E i \in 1..Len(nodes) : nodes[i].s = "SubProgramDef" /\ nodes[i].name = "main"

\* C1: the check pass never aborts: whatever the statements and expressions of
\* the program, analyze_ast runs the pass to its end (success or the error
\* report) and no statement makes the analyzer panic before that.
C1_CheckPassNeverAborts == pc # "panic" /\ ~sem.panic

\* The IR node kind that states one AST statement kind; Cir has no variant for
\* a call statement.
CirKind(s) ==
    CASE s = "Write" -> "Write"
      [] s = "Return" -> "Return"
      [] s = "Set" -> "VariableDef"
      [] s = "Assign" -> "VarAssign"
      [] s = "SubProgramDef" -> "SubProgDef"
      [] s = "If" -> "If"
      [] s = "Else" -> "Else"
      [] s = "SubProgramCall" -> "SubProgCall"

RECURSIVE Mirrors(_, _)
Mirrors(stmts, cirs) ==
    /\ Len(cirs) = Len(stmts)
    /\ \A i \in 1..Len(stmts) :
          /\ cirs[i].c = CirKind(stmts[i].s)
          /\ stmts[i].s \in {"SubProgramDef", "If", "Else"} =>
                Mirrors(stmts[i].stmts, cirs[i].stmts_cir)

\* C4: for every AST semantic analysis accepts, generate_cir returns (it does
\* not abort) a list with one IR node per statement, in the same order and
\* with the same nesting, whatever the statement kinds.
C4_CirMirrorsAst ==
    /\ pc # "panic_ir"
    /\ pc \in {"ir_generated", "code_generated", "panic_codegen"} => Mirrors(ast, ir)

\* C5: when the check pass has ended, the process exits with a failure exactly
\* when the error list is not empty, having reported every error in the order
\* recorded, and then neither IR nor code generation starts; with an empty
\* list analyze_ast returns and only then is the AST given to the IR generator.
C5_ErrorListDecidesExit ==
    /\ pc = "exit_errors" =>
          sem.errors # <<>> /\ reported = sem.errors /\ ir = <<>> /\ code = <<>>
    /\ pc \in AfterAnalysis =>
          sem.errors = <<>> /\ reported = <<>> /\ idx > Len(ast) /\ ~sem.panic
    /\ pc \in {"signature", "check", "body", "panic", "exit_no_main"} =>
          reported = <<>> /\ ir = <<>> /\ code = <<>>

C5_Witness == pc = "exit_errors" /\ Len(reported) >= 2

\* C6: with no top-level subprogram definition named main, analyze_ast exits
\* right after the signature pass ("main function not found"): no statement is
\* ever analyzed, and no IR and no text is produced.
C6_NoMainExitsAfterSignatures ==
    ~HasTopLevelMain(ast) =>
        /\ pc \in {"signature", "exit_no_main"}
        /\ sem.visited = 0
        /\ reported = <<>> /\ ir = <<>> /\ code = <<>>

C6_Witness ==
    /\ pc = "exit_no_main"
    /\ \E i \in 1..Len(ast) : ast[i].s = "SubProgramDef"

IsAssignError(err) ==
    err.kind \in {"assign to unexisting variable", "assign to immutable variable"}

HasAssignError(errors) == \E i \in 1..Len(errors) : IsAssignError(errors[i])

\* C10: once an Assign to a name that is not in the local variable table, or to
\* an immutable one, has recorded its error, the analyzer goes on with the
\* following statements and the run ends with a failure status after the pass:
\* it is still in the pass, or it has exited with the error report.
C10_AssignErrorEndsInErrorExit ==
    HasAssignError(sem.errors) => pc \in {"check", "body", "exit_errors"}

RECURSIVE NoReturnIn(_)
\* The statement list holds no Return, at any depth.
NoReturnIn(stmts) ==
    \A i \in 1..Len(stmts) :
        /\ stmts[i].s # "Return"
        /\ stmts[i].s \in {"If", "Else", "SubProgramDef"} => NoReturnIn(stmts[i].stmts)

MissingReturnError(name) == SemError("subprogram does not have a return statement", name)

\* The error is in the list.
Records(errors, err) == \E i \in 1..Len(errors) : errors[i] = err

RECURSIVE AllStmts(_)
\* The statements of the list and of the blocks inside it, at any depth.
AllStmts(stmts) ==
    UNION {{stmts[i]} \cup (IF stmts[i].s \in {"If", "Else", "SubProgramDef"}
                            THEN AllStmts(stmts[i].stmts) ELSE {}) : i \in 1..Len(stmts)}

\* The subprogram definitions of the program, at any depth.
SubProgramDefs(nodes) == {node \in AllStmts(nodes) : node.s = "SubProgramDef"}

\* The pass over the statements of the program (semantic.rs 103-105) is over,
\* by its end or by an abort.
CheckPassOver == {"panic", "exit_errors"} \cup AfterAnalysis

\* C11: a subprogram with a return type other than Void whose body holds no
\* Return statement makes the analysis fail with the missing-return error for
\* that subprogram: when the pass over the statements is over, the run has
\* ended in the error report and the report holds that error.  A procedure
\* (return type Void) whose body holds no Return statement never gets a
\* missing-return error.
C11_NoReturnFunctionFailsWithMissingReturn ==
    \A def \in SubProgramDefs(ast) :
        NoReturnIn(def.stmts) =>
            IF def.return_type # "Void"
            THEN pc \in CheckPassOver =>
                    pc = "exit_errors" /\ Records(reported, MissingReturnError(def.name))
            ELSE ~Records(sem.errors, MissingReturnError(def.name))

\* The indices of the top-level subprogram definitions.
TopLevelDefs(nodes) == {i \in 1..Len(nodes) : nodes[i].s = "SubProgramDef"}

\* C12: whenever analyze_ast has returned successfully, the top-level
\* subprogram definitions have pairwise distinct names, exactly one of them is
\* named main, and that one has no parameter and the return type Int.
C12_AcceptedSignaturesAreWellFormed ==
    pc \in AfterAnalysis =>
        /\ \A i, j \in TopLevelDefs(ast) : i # j => ast[i].name # ast[j].name
        /\ Cardinality({i \in TopLevelDefs(ast) : ast[i].name = "main"}) = 1
        /\ \A i \in TopLevelDefs(ast) :
              ast[i].name = "main" => ast[i].params = <<>> /\ ast[i].return_type = "Int"

C12_Witness ==
    /\ pc = "analyzed"
    /\ Cardinality(TopLevelDefs(ast)) = 2
    /\ \E i \in TopLevelDefs(ast) : ast[i].name = "f" /\ ast[i].params # <<>>

RECURSIVE ReturnsTyped(_, _)
\* Every Return of the list, the ones nested in If and Else blocks included,
\* is annotated with the type t; a nested definition encloses its own body.
ReturnsTyped(stmts, t) ==
    \A i \in 1..Len(stmts) :
        /\ stmts[i].s = "Return" => stmts[i].return_type = t
        /\ stmts[i].s \in {"If", "Else"} => ReturnsTyped(stmts[i].stmts, t)
        /\ stmts[i].s = "SubProgramDef" =>
              ReturnsTyped(stmts[i].stmts, stmts[i].return_type)

\* C13: whenever analyze_ast has returned successfully, every Return inside a
\* subprogram body, nested in If/Else blocks or not, is annotated with the
\* declared return type of the subprogram that encloses it.
C13_ReturnsCarryDeclaredType ==
    pc \in AfterAnalysis =>
        \A i \in TopLevelDefs(ast) : ReturnsTyped(ast[i].stmts, ast[i].return_type)

\* An accepted main with a Return inside the Else of an If, and another subprogram.
C13_Witness ==
    /\ pc = "analyzed"
    /\ Cardinality(TopLevelDefs(ast)) = 2
    /\ \E i \in TopLevelDefs(ast) : \E j \in 1..Len(ast[i].stmts) :
          /\ ast[i].stmts[j].s = "If"
          /\ \E k \in 1..Len(ast[i].stmts[j].stmts) :
                /\ ast[i].stmts[j].stmts[k].s = "Else"
                /\ ~NoReturnIn(ast[i].stmts[j].stmts[k].stmts)

\* The types generate_stmt_cir hands to to_c_type for one statement
\* (ir.rs 146, 159, 168, 193).
ToCTypeArguments(node) ==
    CASE node.s = "Write" -> {node.type_}
      [] node.s = "Set" -> {node.var_type}
      [] node.s = "SubProgramDef" ->
            {node.return_type} \cup {node.params[i].param_type : i \in 1..Len(node.params)}
      [] OTHER -> {}

\* C14: whenever analyze_ast has returned successfully, no Write, Return or Set
\* node of the AST, at any depth, carries the type Unknown, and so no type that
\* IR generation hands to to_c_type is Unknown.
C14_NoUnknownAfterAnalysis ==
    pc \in AfterAnalysis =>
        \A node \in AllStmts(ast) :
            /\ node.s = "Write" => node.type_ # "Unknown"
            /\ node.s = "Return" => node.return_type # "Unknown"
            /\ node.s = "Set" => node.var_type # "Unknown"
            /\ "Unknown" \notin ToCTypeArguments(node)

\* An accepted program with a Write, an inferred Set and a Return, after IR generation.
C14_Witness ==
    /\ pc = "ir_generated"
    /\ \E w, v, r \in AllStmts(ast) :
          /\ w.s = "Write"
          /\ v.s = "Set" /\ v.expr = One /\ v.mutable /\ v.var_type = "Int"
          /\ r.s = "Return"

RECURSIVE AllCirs(_)
\* The IR nodes of the list and of the blocks inside it, at any depth.
AllCirs(cirs) ==
    UNION {{cirs[i]} \cup (IF cirs[i].c \in {"If", "Else", "SubProgDef"}
                           THEN AllCirs(cirs[i].stmts_cir) ELSE {}) : i \in 1..Len(cirs)}

Pieces(text) == {text[i] : i \in 1..Len(text)}

\* C15: an Add whose two operands are String-typed is rendered as a call of
\* string_concat with no `+` in it.  The case checked is the value of a Write
\* or of a Set of type String in an accepted program: the type of the statement
\* is the type of the left operand, and the right operand was checked to have
\* the same type.
C15_StringAddRendersAsConcat ==
    pc \in {"ir_generated", "code_generated"} =>
        \A cir \in AllCirs(ir) :
            (/\ cir.c \in {"Write", "VariableDef"}
             /\ cir.ctype = "String"
             /\ cir.cvalue.v = "BinaryOp"
             /\ cir.cvalue.op = "Add") =>
                LET text == ShowCValue(cir.cvalue)
                IN  /\ text.ok
                    /\ text.val[1] = "string_concat(&gc, &"
                    /\ "+" \notin Pieces(text.val)

\* The texts of Display for CType.
CTypeTexts == {"int32_t", "unt32_t", "string_t", "bool", "void"}

\* Piece k of the text opens the parameter list of a subprogram's signature:
\* it follows `<return type> <name>`.
IsSignature(text, k) ==
    /\ k >= 4
    /\ text[k] \in {"(int argc, char** argv)", "("}
    /\ text[k - 2] = " "
    /\ text[k - 3] \in CTypeTexts

\* The name of the subprogram whose signature is the last one before piece k.
EmittedIn(text, k) ==
    LET sigs == {i \in 1..k : IsSignature(text, i)}
    IN  IF sigs = {} THEN ""
        ELSE text[(CHOOSE i \in sigs : \A j \in sigs : j <= i) - 1]

\* C16: in the generated text main has the signature (int argc, char** argv)
\* and tgc_start as the first line of its body; inside main every return,
\* nested or not, comes right after a tgc_stop line; and no tgc_start or
\* tgc_stop is emitted in another subprogram, defined before or after main.
C16_CollectorCallsOnlyInMain ==
    pc \in {"code_generated", "c_file_written", "exit_0"} =>
        \A k \in 1..Len(code) :
            /\ (IsSignature(code, k) /\ code[k - 1] = "main") =>
                  /\ code[k] = "(int argc, char** argv)"
                  /\ k + 3 <= Len(code)
                  /\ code[k + 1] = "{" /\ code[k + 2] = "\n"
                  /\ code[k + 3] = "tgc_start(&gc, &argc);"
            /\ (code[k] = "return " /\ EmittedIn(code, k) = "main") =>
                  k > 2 /\ code[k - 2] = "tgc_stop(&gc);" /\ code[k - 1] = "\n"
            /\ code[k] \in {"tgc_start(&gc, &argc);", "tgc_stop(&gc);"} =>
                  EmittedIn(code, k) = "main"
            /\ code[k] = "tgc_start(&gc, &argc);" =>
                  k > 3 /\ IsSignature(code, k - 3)

\* Text generated for main with a return nested in an If, followed by the
\* function f with its own return.
C16_Witness ==
    /\ pc = "code_generated"
    /\ \E k \in 1..Len(code) : code[k] = "return " /\ EmittedIn(code, k) = "f"
    /\ \E i, k \in 1..Len(code) :
          /\ i < k
          /\ code[i] = "if (" /\ EmittedIn(code, i) = "main"
          /\ code[k] = "return " /\ EmittedIn(code, k) = "main"
          /\ \A j \in i..k : code[j] # "}"
    /\ \E i, k \in 1..Len(code) :
          /\ i < k
          /\ IsSignature(code, i) /\ code[i - 1] = "main"
          /\ IsSignature(code, k) /\ code[k - 1] = "f"

\* The program defines, at top level, a main with no parameter that returns Int.
DefinesIntMain(nodes) ==
    \E i \in TopLevelDefs(nodes) :
        nodes[i].name = "main" /\ nodes[i].params = <<>> /\ nodes[i].return_type = "Int"

\* C17: a program that defines a zero-parameter, Int-returning main goes through
\* semantic analysis and IR generation and reaches code generation: the run
\* never ends in the error report and never aborts in the analyzer, the IR
\* generator or the code generator.
C17_IntMainReachesCodeGeneration ==
    DefinesIntMain(ast) =>
        pc \notin {"exit_errors", "exit_no_main", "panic", "panic_ir", "panic_codegen"}

\* C18: the driver exits with status 0 only when every phase has succeeded and
\* the native C compiler has exited with a success status; when the native
\* compiler fails, the driver does not exit with status 0.
C18_ExitZeroOnlyOnFullSuccess ==
    pc = "exit_0" =>
        /\ sem.errors = <<>> /\ ~sem.panic
        /\ Mirrors(ast, ir)
        /\ code # <<>>
        /\ cc = "success"

\* C20: once analyze_stmt has finished with a top-level subprogram definition,
\* with or without errors recorded for it, the local variable table is empty:
\* the analyzer is back in the loop over the top-level nodes, the node it has
\* just left is a definition, and the table holds no name.
C20_LocalTableEmptyAfterSubprogram ==
    (pc = "check" /\ idx > 1 /\ ast[idx - 1].s = "SubProgramDef") =>
        DOMAIN sem.local_var_table = {}

\* C21: when the analyzer is about to take the next top-level statement, the
\* is_subprogram flag is false, so a top-level definition is never taken for a
\* nested one and its body is analyzed.
C21_FlagClearBetweenTopLevelStatements ==
    pc = "check" => ~sem.is_subprogram

\* C22: when the analyzer has gone through the body of a non-Void subprogram
\* that holds a Return at some depth (in the body itself, or inside an If or
\* Else block of it), it records no missing-return error for it: the step that
\* ends the body leaves the error list as it was.
C22_NestedReturnCountsAsReturn ==
    [][(/\ pc = "body" /\ pc' = "check"
        /\ ast[idx].return_type # "Void"
        /\ ~NoReturnIn(ast[idx].stmts)) =>
            sem'.errors = sem.errors]_vars

\* C25: a binary operation that is not a string concatenation (any operator
\* but an Add of String-typed operands) is rendered as `lhs <token> rhs` with
\* the C token of the operator, whatever the operands, a string literal on the
\* left included, and rendering it never aborts.  The case checked is the
\* value of a Write, whose type is the type of the left operand.
C25_BinaryRendersWithCToken ==
    /\ pc # "panic_codegen"
    /\ pc \in {"ir_generated", "code_generated"} =>
          \A cir \in AllCirs(ir) :
              (/\ cir.c = "Write"
               /\ cir.cvalue.v = "BinaryOp"
               /\ ~(cir.cvalue.op = "Add" /\ cir.ctype = "String")) =>
                  LET text == ShowCValue(cir.cvalue)
                      lhs == ShowCValue(cir.cvalue.lhs)
                      rhs == ShowCValue(cir.cvalue.rhs)
                  IN  /\ text.ok
                      /\ text.val = lhs.val \o <<" ", ShowOp(cir.cvalue.op), " ">> \o rhs.val

\* The subprogram a statement calls first: the call statement's callee, or the
\* callee of a Write's or Return's expression or of its leftmost operand.
CalleeOf(stmt) ==
    IF stmt.s = "SubProgramCall" THEN {stmt.name}
    ELSE IF stmt.s \notin {"Write", "Return"} THEN {}
    ELSE IF stmt.expr.e = "SubprogramCall" THEN {stmt.expr.name}
    ELSE IF stmt.expr.e = "Binary" /\ stmt.expr.lhs.e = "SubprogramCall"
    THEN {stmt.expr.lhs.name}
    ELSE {}

\* The return type the first top-level definition of name declares.
DeclaredReturnType(nodes, name) ==
    LET first == CHOOSE i \in TopLevelDefs(nodes) :
                     /\ nodes[i].name = name
                     /\ \A j \in TopLevelDefs(nodes) : nodes[j].name = name => i <= j
    IN  nodes[first].return_type

\* C27: while a body is analyzed, a call to a subprogram defined at top level
\* is resolved, whether the definition stands before or after the caller: the
\* step records no "subprogram is not defined" error for it, and a Write whose
\* expression is typed by the call is annotated with the return type the
\* callee declares.
C27_CallsResolveInAnyOrder ==
    [][(pc = "body" /\ pc' \in {"body", "panic"}) =>
          \A name \in CalleeOf(ast[idx].stmts[bidx]) :
              (\E i \in TopLevelDefs(ast) : ast[i].name = name) =>
                  /\ \A k \in (Len(sem.errors) + 1)..Len(sem'.errors) :
                        sem'.errors[k] # SemError("subprogram is not defined", name)
                  /\ (pc' = "body" /\ ast[idx].stmts[bidx].s = "Write") =>
                        ast'[idx].stmts[bidx].type_ = DeclaredReturnType(ast, name)]_vars

\* main calls f, defined after it, and the Write has taken f's return type.
C27_Witness ==
    /\ pc = "body"
    /\ idx = 1
    /\ bidx = 2
    /\ Len(ast) = 2
    /\ ast[1].name = "main"
    /\ ast[2].s = "SubProgramDef" /\ ast[2].name = "f" /\ ast[2].return_type = "String"
    /\ ast[1].stmts[1].s = "Write"
    /\ CalleeOf(ast[1].stmts[1]) = {"f"}
    /\ ast[1].stmts[1].type_ = "String"
    /\ sem.errors = <<>>

\* The Set statements of a list that are analyzed in the enclosing
\* subprogram's scope: its own and those inside its If and Else blocks.
RECURSIVE SetsIn(_)
SetsIn(stmts) ==
    UNION {IF stmts[i].s = "Set" THEN {stmts[i]}
           ELSE IF stmts[i].s \in {"If", "Else"} THEN SetsIn(stmts[i].stmts)
           ELSE {} : i \in 1..Len(stmts)}

\* C28: within one subprogram the scope is flat.  Analyzing a statement of the
\* body records "redefinition of variable" for every Set, nested in If or Else
\* or not, of a name the table already holds (a parameter or an earlier Set,
\* inside a block or not); every name the statement declares, inside a block
\* included, is in the table afterwards, and no name leaves the table.
C28_FlatScopeWithinSubprogram ==
    [][(pc = "body" /\ pc' = "body") =>
          LET sets == SetsIn(<<ast[idx].stmts[bidx]>>)
              recorded == {sem'.errors[k] : k \in (Len(sem.errors) + 1)..Len(sem'.errors)}
          IN  /\ \A node \in sets :
                    node.name \in DOMAIN sem.local_var_table =>
                        SemError("redefinition of variable", node.name) \in recorded
              /\ \A node \in sets : node.name \in DOMAIN sem'.local_var_table
              /\ DOMAIN sem.local_var_table \subseteq DOMAIN sem'.local_var_table]_vars

\* A Set after an If block that declared the same name has been reported.
C28_Witness ==
    /\ pc = "body"
    /\ bidx = 3
    /\ ast[idx].stmts[1].s = "If"
    /\ SetsIn(ast[idx].stmts[1].stmts) # {}
    /\ ast[idx].stmts[2].s = "Set"
    /\ sem.errors = <<SemError("redefinition of variable", "x")>>

\* C29: in the generated C text a subprogram's Nat return type or parameter
\* type is written `uint32_t` and an Int one `int32_t`.
C29_NatIsUint32AndIntIsInt32 ==
    pc = "code_generated" =>
        \A cir \in AllCirs(ir) :
            cir.c = "SubProgDef" =>
                LET Text(ctype) == IF ctype = "Uint" THEN "uint32_t" ELSE "int32_t"
                IN  /\ cir.return_type \in {"Int", "Uint"} =>
                          \E k \in 1..(Len(code) - 2) :
                              /\ code[k] = Text(cir.return_type)
                              /\ code[k + 1] = " "
                              /\ code[k + 2] = cir.name
                    /\ \A i \in 1..Len(cir.cparams) :
                          cir.cparams[i].param_type \in {"Int", "Uint"} =>
                              \E k \in 1..(Len(code) - 2) :
                                  /\ code[k] = Text(cir.cparams[i].param_type)
                                  /\ code[k + 1] = " "
                                  /\ code[k + 2] = cir.cparams[i].name

\* C30: a program analyze_ast has accepted has only subprogram definitions at
\* top level, and so has the IR built from it: no statement is emitted
\* outside a function.
C30_OnlyDefinitionsAtTopLevel ==
    /\ pc \in AfterAnalysis => \A i \in 1..Len(ast) : ast[i].s = "SubProgramDef"
    /\ pc = "code_generated" => \A i \in 1..Len(ir) : ir[i].c = "SubProgDef"

(***************************************************************************)
(* SpecExpr: one call of analyze_expr (semantic.rs 116-235) on an          *)
(* analyzer whose tables hold what the statements before the expression    *)
(* have put there.                                                         *)
(***************************************************************************)
\* Limbs around the bounds of i32 and u32.
HighLimbs == {-32769, -32768, -1, 0, 32767, 32768, Limb - 1, Limb}
LowLimbs == {0, 1, Limb - 2, Limb - 1}

NumberSamples == {Num(hi, lo) : hi \in HighLimbs, lo \in LowLimbs}

ProbeExprs ==
    {ENumber(n) : n \in NumberSamples}
    \cup {StrA, EBool(TRUE), EVariable("x"), EVariable("y"),
          ECall("f", <<>>), ECall("f", <<One>>), ECall("f", <<One, StrA>>), ECall("g", <<>>),
          EBinary("Add", One, One), EBinary("Add", One, StrA)}

\* The analyzer inside main, after `set mut x : int = ..` and with f(a: int): int.
ProbeAnalyzers ==
    {NewAnalyzer,
     [NewAnalyzer EXCEPT
        !.is_subprogram = TRUE,
        !.expected_return_type = "Int",
        !.subprogram_table =
            MapInsert(MapInsert(EmptyMap, "main", SubProgCtx(<<>>, "Int")),
                      "f", SubProgCtx(<<"Int">>, "Int")),
        !.local_var_table = MapInsert(EmptyMap, "x", VarCtx("Int", TRUE))]}

NoResult == Typed(NewAnalyzer, "Unknown")

InitExpr ==
    /\ pc = "probe"
    /\ \E expr \in ProbeExprs, expected \in Types, st \in ProbeAnalyzers :
          probe = [expr |-> expr, expected |-> expected, st |-> st, result |-> NoResult]
    /\ ast = <<>>
    /\ sem = NewAnalyzer
    /\ cc = NotRun
    /\ compiler_ctx = CompilerCtx(FALSE)
    /\ c_file = Absent
    /\ idx = 1
    /\ bidx = 0
    /\ reported = <<>>
    /\ ir = <<>>
    /\ code = <<>>
    /\ tokens = <<>>
    /\ parsed = <<>>
    /\ lex = <<>>

\* self.analyze_expr(expr, expected_type)
ProbeAnalyzeExpr ==
    /\ pc = "probe"
    /\ probe' = [probe EXCEPT !.result = AnalyzeExpr(probe.st, probe.expr, probe.expected)]
    /\ pc' = "probed"
    /\ UNCHANGED <<ast, sem, idx, bidx, reported, ir, code, tokens, parsed, lex, cc,
                   compiler_ctx, c_file>>

NextExpr == ProbeAnalyzeExpr

SpecExpr == InitExpr /\ [][NextExpr]_vars

\* C9: a number literal checked against Unknown resolves to Int when
\* 0 <= n <= 2147483647 and to Nat when 2147483648 <= n <= 4294967295, and
\* records no error.
C9_UnknownNumberInfersIntThenNat ==
    (pc = "probed" /\ probe.expr.e = "Number" /\ probe.expected = "Unknown") =>
        LET n == probe.expr.num
        IN  /\ (NumLE(Num(0, 0), n) /\ NumLE(n, Num(32767, 65535))) =>
                  probe.result.type = "Int"
            /\ (NumLE(Num(32768, 0), n) /\ NumLE(n, Num(65535, 65535))) =>
                  probe.result.type = "Nat"
            /\ (NumLE(Num(0, 0), n) /\ NumLE(n, Num(65535, 65535))) =>
                  probe.result.st.errors = probe.st.errors /\ ~probe.result.st.panic

C9_Witness ==
    /\ pc = "probed"
    /\ probe.expected = "Unknown"
    /\ probe.expr = ENumber(Num(32768, 0))
    /\ probe.result.type = "Nat"
    /\ probe.result.st.errors = <<>>

\* The types a Set can declare, a variable can have and a parameter can have
\* (parse_type, parser.rs 313-329).
DeclaredTypes == {"Int", "Nat", "String", "Bool"}

\* C23: a call that passes k arguments to a registered callee with n declared
\* parameters checks the first min(k, n) arguments, each against the parameter
\* type at its position, and nothing else: it does not abort, the analyzer is
\* left as those checks leave it (no arity error), and the call has the
\* callee's return type; for k < n and for k > n alike.
C23_CallChecksShortestList ==
    (/\ pc = "probed"
     /\ probe.expr.e = "SubprogramCall"
     /\ probe.expr.name \in DOMAIN probe.st.subprogram_table) =>
        LET callee == probe.st.subprogram_table[probe.expr.name]
            k == Len(probe.expr.args)
            n == Len(callee.param_types)
            checked == SubSeq(probe.expr.args, 1, IF k < n THEN k ELSE n)
        IN  /\ ~probe.result.st.panic
            /\ probe.result.st = AnalyzeArgs(probe.st, checked, callee.param_types, 1)
            /\ probe.result.type = callee.return_type

\* C19: when analyze_expr checks an expression against a declared (known)
\* expected type and records no error for it, the type it resolves is that
\* expected type, whatever the form of the expression (a literal, a variable, a
\* call, a binary operation).
C19_NoErrorMeansExpectedType ==
    (/\ pc = "probed"
     /\ probe.expected \in DeclaredTypes
     /\ probe.result.st.errors = probe.st.errors
     /\ ~probe.result.st.panic) =>
        probe.result.type = probe.expected

(***************************************************************************)
(* lexer.rs: Token.  A token is its kind and, for Number, String and       *)
(* Ident, the payload of the kind; Option::None is the token NoToken.      *)
(***************************************************************************)
Tok(kind) == [kind |-> kind]
TNumber(num) == [kind |-> "Number", num |-> num]
TString(str) == [kind |-> "String", str |-> str]
TIdent(name) == [kind |-> "Ident", name |-> name]
NoToken == [kind |-> "None"]

(***************************************************************************)
(* parser.rs: Parser.  `lexer` is the Peekable<Lexer>, the token sequence  *)
(* and the position of the next token in it; `dropped` counts the tokens   *)
(* parse_statements took without building anything from them.  A result    *)
(* is the parser, a status (ok; exit for compiler_error!, which ends the   *)
(* process; panic for unreachable!() or expect on None) and the value.     *)
(***************************************************************************)
NewParser(toks) == [lexer |-> toks, pos |-> 1, curr_token |-> NoToken, dropped |-> 0]

\* self.lexer.peek()
LexerPeek(p) == IF p.pos <= Len(p.lexer) THEN p.lexer[p.pos] ELSE NoToken

\* self.lexer.next(), the parser after it
LexerNext(p) == IF p.pos <= Len(p.lexer) THEN [p EXCEPT !.pos = @ + 1] ELSE p

Parsed(p, val) == [status |-> "ok", p |-> p, val |-> val]
SyntaxExit(p) == [status |-> "exit", p |-> p, val |-> <<>>]
ParserPanic(p) == [status |-> "panic", p |-> p, val |-> <<>>]

\* compiler_error!(self.curr_token(), ..): curr_token() panics on None (parser.rs 160-164)
CompilerErrorAtCurr(p) ==
    IF p.curr_token.kind = "None" THEN ParserPanic(p) ELSE SyntaxExit(p)

\* Op::from (parser.rs 23-37)
OpFromPlusStarSwapped(token_kind) ==
    CASE token_kind = "EqualEqual" -> "Equal"
      [] token_kind = "NotEqual" -> "NotEqual"
      [] token_kind = "Or" -> "Or"
      [] token_kind = "Minus" -> "Minus"
      [] token_kind = "Plus" -> "Mult"
      [] token_kind = "Star" -> "Add"
      [] token_kind = "Slash" -> "Div"
      [] token_kind = "And" -> "And"
      [] token_kind = "Percent" -> "Mod"
      [] OTHER -> "unreachable"

OpFrom(token_kind) ==
    CASE token_kind = "EqualEqual" -> "Equal"
      [] token_kind = "NotEqual" -> "NotEqual"
      [] token_kind = "Or" -> "Or"
      [] token_kind = "Minus" -> "Minus"
      [] token_kind = "Plus" -> "Add"
      [] token_kind = "Star" -> "Mult"
      [] token_kind = "Slash" -> "Div"
      [] token_kind = "And" -> "And"
      [] token_kind = "Percent" -> "Mod"
      [] OTHER -> "unreachable"

\* get_and_expect (parser.rs 166-182)
GetAndExpect(p, token_kind) ==
    LET token == LexerPeek(p)
    IN  IF token.kind # "None"
        THEN IF token.kind # token_kind THEN SyntaxExit(LexerNext(p))
             ELSE Parsed([LexerNext(p) EXCEPT !.curr_token = token], TRUE)
        ELSE CompilerErrorAtCurr(p)

\* get_maybe (parser.rs 184-198)
GetMaybe(p, token_kind) ==
    LET token == LexerPeek(p)
    IN  IF token.kind # "None"
        THEN IF token.kind # token_kind THEN Parsed(p, FALSE)
             ELSE GetAndExpect(p, token_kind)
        ELSE CompilerErrorAtCurr(p)

\* get_and_return_ident (parser.rs 200-214)
GetAndReturnIdent(p) ==
    LET token == LexerPeek(p)
    IN  IF token.kind # "None"
        THEN IF token.kind = "Ident" THEN Parsed(LexerNext(p), token.name)
             ELSE SyntaxExit(LexerNext(p))
        ELSE CompilerErrorAtCurr(p)

\* num.parse::<i128>() (parser.rs 221): the characters of the token, most
\* significant first.  The parse fails on an empty text, on a sign alone, on a
\* character that is not an ASCII digit and on a value outside i128.
IsDigitChar(c) == \E d \in 0..9 : DigitChar(d) = c

DigitValue(c) == CHOOSE d \in 0..9 : DigitChar(d) = c

\* The carry of n * 10 + d into limb i; the carry into limb Limbs + 1 is what
\* does not fit 128 bits.
RECURSIVE Mul10AddCarry(_, _, _)
Mul10AddCarry(n, d, i) ==
    IF i = 1 THEN d ELSE (n[i - 1] * 10 + Mul10AddCarry(n, d, i - 1)) \div Limb

NumMul10Add(n, d) ==
    IF Mul10AddCarry(n, d, Limbs + 1) # 0 THEN Abort
    ELSE Ok(I128([i \in 1..Limbs |-> (n[i] * 10 + Mul10AddCarry(n, d, i)) % Limb]))

\* The magnitude of the digits from the i-th on, added to acc * 10^k.
RECURSIVE ParseDigits(_, _, _)
ParseDigits(digits, i, acc) ==
    IF i > Len(digits) THEN Ok(acc)
    ELSE IF ~IsDigitChar(digits[i]) THEN Abort
    ELSE LET next == NumMul10Add(acc, DigitValue(digits[i]))
         IN  IF ~next.ok THEN Abort ELSE ParseDigits(digits, i + 1, next.val)

\* 2^127, the magnitude of i128::MIN
IsTwoTo127(n) == n[Limbs] = Limb \div 2 /\ \A i \in 1..(Limbs - 1) : n[i] = 0

ParseI128(num) ==
    LET signed == num # <<>> /\ num[1] \in {"+", "-"}
        digits == IF signed THEN Tail(num) ELSE num
        magnitude == IF digits = <<>> THEN Abort ELSE ParseDigits(digits, 1, NumZero)
    IN  IF ~magnitude.ok THEN Abort
        ELSE IF signed /\ num[1] = "-"
        THEN IF IsNegative(magnitude.val) /\ ~IsTwoTo127(magnitude.val) THEN Abort
             ELSE Ok(Negate(magnitude.val))
        ELSE IF IsNegative(magnitude.val) THEN Abort
        ELSE Ok(magnitude.val)

\* The tokens the loop of parse_expression takes as operators (parser.rs 280-289)
OperatorTokens ==
    {"Equal", "EqualEqual", "NotEqual", "Or", "And", "Plus", "Minus", "Star", "Slash",
     "Percent"}

\* A call and what follows it: compiler_error! ends the process and a panic
\* unwinds, so what follows runs only on the result of a call that returned.
Then(r, Rest(_)) == IF r.status # "ok" THEN r ELSE Rest(r)

RECURSIVE ParsePrimary(_), ParseOperators(_, _), ParseExpression(_), ParseSubprogArgs(_, _)

\* The loop of parse_expression whose right operand is one primary only.
ParseOperatorsOnePrimary(p, lhs) ==
    LET token == LexerPeek(p)
    IN  IF token.kind \in OperatorTokens
        THEN IF OpFrom(token.kind) = "unreachable" THEN ParserPanic(LexerNext(p))
             ELSE Then(ParsePrimary(LexerNext(p)), LAMBDA rhs :
                  ParseOperators(rhs.p, EBinary(OpFrom(token.kind), lhs, rhs.val)))
        ELSE Parsed(p, lhs)

\* parse_subprog_args (parser.rs 450-463)
ParseSubprogArgs(p, args) ==
    LET token == LexerPeek(p)
    IN  IF token.kind = "None" \/ token.kind = "RParen" THEN Parsed(p, args)
        ELSE IF token.kind = "Comma"
        THEN ParseSubprogArgs(GetAndExpect(p, "Comma").p, args)
        ELSE Then(ParseExpression(p), LAMBDA expr :
             ParseSubprogArgs(expr.p, Append(args, expr.val)))

\* The first match of parse_expression (parser.rs 218-277, 307-309)
ParsePrimary(p) ==
    LET token == LexerPeek(p)
        p1 == LexerNext(p)
    IN  CASE token.kind = "None" -> CompilerErrorAtCurr(p)
          [] token.kind = "Number" ->
                IF ParseI128(token.num).ok THEN Parsed(p1, ENumber(ParseI128(token.num).val))
                ELSE SyntaxExit(p1)                                 \* compiler_error!
          [] token.kind = "String" -> Parsed(p1, EString(token.str))
          [] token.kind = "True" -> Parsed(p1, EBool(TRUE))
          [] token.kind = "False" -> Parsed(p1, EBool(FALSE))
          [] token.kind = "Ident" ->
                IF LexerPeek(p1).kind = "LParen"
                THEN Then(GetAndExpect(p1, "LParen"), LAMBDA open :
                     Then(ParseSubprogArgs(open.p, <<>>), LAMBDA args :
                     Then(GetAndExpect(args.p, "RParen"), LAMBDA close :
                     Parsed(close.p, ECall(token.name, args.val)))))
                ELSE Parsed(p1, EVariable(token.name))
          [] OTHER -> SyntaxExit(p1)

\* The while loop of parse_expression (parser.rs 278-305): Op::from runs
\* before the right operand is parsed.
ParseOperators(p, lhs) ==
    LET token == LexerPeek(p)
    IN  IF token.kind \in OperatorTokens
        THEN IF OpFrom(token.kind) = "unreachable" THEN ParserPanic(LexerNext(p))
             ELSE Then(ParseExpression(LexerNext(p)), LAMBDA rhs :
                  ParseOperators(rhs.p, EBinary(OpFrom(token.kind), lhs, rhs.val)))
        ELSE Parsed(p, lhs)

\* parse_expression (parser.rs 217-310)
ParseExpression(p) ==
    Then(ParsePrimary(p), LAMBDA lhs : ParseOperators(lhs.p, lhs.val))

\* parse_type (parser.rs 313-329)
ParseType(p) ==
    LET token == LexerPeek(p)
        p1 == LexerNext(p)
    IN  CASE token.kind = "None" -> CompilerErrorAtCurr(p)
          [] token.kind = "Int" -> Parsed(p1, "Int")
          [] token.kind = "Nat" -> Parsed(p1, "Nat")
          [] token.kind = "Str" -> Parsed(p1, "String")
          [] token.kind = "Bool" -> Parsed(p1, "Bool")
          [] OTHER -> SyntaxExit(p1)

RECURSIVE ParseParams(_, _)
\* parse_params (parser.rs 398-425)
ParseParams(p, params) ==
    LET token == LexerPeek(p)
    IN  CASE token.kind = "None" \/ token.kind = "RParen" -> Parsed(p, params)
          [] token.kind = "Ident" ->
                Then(GetAndReturnIdent(p), LAMBDA name :
                Then(GetAndExpect(name.p, "Colon"), LAMBDA colon :
                Then(ParseType(colon.p), LAMBDA param_type :
                ParseParams(param_type.p, Append(params, Param(name.val, param_type.val))))))
          [] token.kind = "Comma" -> ParseParams(GetAndExpect(p, "Comma").p, params)
          [] OTHER -> SyntaxExit(p)

RECURSIVE ParseStatements(_, _), ParseStatement(_)

\* parse_return_stmt (parser.rs 331-338)
ParseReturnStmt(p) ==
    Then(ParseExpression(p), LAMBDA expr :
    Then(GetAndExpect(expr.p, "Semicolon"), LAMBDA semi :
    Parsed(semi.p, SReturn("Unknown", expr.val))))

\* parse_if_stmt (parser.rs 340-346)
ParseIfStmt(p) ==
    Then(ParseExpression(p), LAMBDA expr :
    Then(GetAndExpect(expr.p, "Then"), LAMBDA then :
    Then(ParseStatements(then.p, <<>>), LAMBDA stmts :
    Then(GetAndExpect(stmts.p, "End"), LAMBDA end :
    Parsed(end.p, SIf(expr.val, stmts.val))))))

\* parse_else_stmt (parser.rs 349-352)
ParseElseStmt(p) ==
    Then(ParseStatements(p, <<>>), LAMBDA stmts : Parsed(stmts.p, SElse(stmts.val)))

\* parse_write_stmt (parser.rs 354-363)
ParseWriteStmt(p) ==
    Then(GetAndExpect(p, "LParen"), LAMBDA open :
    Then(ParseExpression(open.p), LAMBDA expr :
    Then(GetAndExpect(expr.p, "RParen"), LAMBDA close :
    Then(GetAndExpect(close.p, "Semicolon"), LAMBDA semi :
    Parsed(semi.p, SWrite("Unknown", expr.val))))))

\* The type annotation of parse_set_stmt (parser.rs 372-376)
ParseSetType(p) ==
    Then(GetMaybe(p, "Walrus"), LAMBDA walrus :
    IF walrus.val THEN Parsed(walrus.p, "Unknown")
    ELSE Then(GetAndExpect(walrus.p, "Colon"), LAMBDA colon :
         Then(ParseType(colon.p), LAMBDA var_type :
         Then(GetAndExpect(var_type.p, "Equal"), LAMBDA equal :
         Parsed(equal.p, var_type.val)))))

\* parse_set_stmt (parser.rs 365-386)
ParseSetStmt(p) ==
    Then(GetMaybe(p, "Mut"), LAMBDA mutable :
    Then(GetAndReturnIdent(mutable.p), LAMBDA name :
    Then(ParseSetType(name.p), LAMBDA var_type :
    Then(ParseExpression(var_type.p), LAMBDA expr :
    Then(GetAndExpect(expr.p, "Semicolon"), LAMBDA semi :
    Parsed(semi.p, SSet(name.val, var_type.val, mutable.val, expr.val)))))))

\* parse_varassign_stmt (parser.rs 387-396)
ParseVarassignStmt(p) ==
    IF p.curr_token.kind # "Ident" THEN ParserPanic(p)
    ELSE Then(GetAndExpect(p, "Equal"), LAMBDA equal :
         Then(ParseExpression(equal.p), LAMBDA expr :
         Then(GetAndExpect(expr.p, "Semicolon"), LAMBDA semi :
         Parsed(semi.p, SAssign(p.curr_token.name, expr.val)))))

\* parse_func_stmt (parser.rs 427-448)
ParseFuncStmt(p) ==
    Then(GetAndReturnIdent(p), LAMBDA name :
    Then(GetAndExpect(name.p, "LParen"), LAMBDA open :
    Then(ParseParams(open.p, <<>>), LAMBDA params :
    Then(GetAndExpect(params.p, "RParen"), LAMBDA close :
    Then(GetAndExpect(close.p, "Colon"), LAMBDA colon :
    Then(ParseType(colon.p), LAMBDA return_type :
    Then(GetAndExpect(return_type.p, "Start"), LAMBDA start :
    Then(ParseStatements(start.p, <<>>), LAMBDA stmts :
    Then(GetAndExpect(stmts.p, "Stop"), LAMBDA stop :
    Parsed(stop.p, SDef(name.val, return_type.val, params.val, stmts.val)))))))))))

\* parse_proc_stmt (parser.rs 465-479)
ParseProcStmt(p) ==
    Then(GetAndReturnIdent(p), LAMBDA name :
    Then(GetAndExpect(name.p, "LParen"), LAMBDA open :
    Then(ParseParams(open.p, <<>>), LAMBDA params :
    Then(GetAndExpect(params.p, "RParen"), LAMBDA close :
    Then(GetAndExpect(close.p, "Start"), LAMBDA start :
    Then(ParseStatements(start.p, <<>>), LAMBDA stmts :
    Then(GetAndExpect(stmts.p, "Stop"), LAMBDA stop :
    Parsed(stop.p, SDef(name.val, "Void", params.val, stmts.val)))))))))

\* parse_subprogcall_stmt (parser.rs 481-494)
ParseSubprogcallStmt(p) ==
    IF p.curr_token.kind # "Ident" THEN ParserPanic(p)
    ELSE Then(GetAndExpect(p, "LParen"), LAMBDA open :
         Then(ParseSubprogArgs(open.p, <<>>), LAMBDA args :
         Then(GetAndExpect(args.p, "RParen"), LAMBDA close :
         Then(GetAndExpect(close.p, "Semicolon"), LAMBDA semi :
         Parsed(semi.p, SCall(p.curr_token.name, args.val))))))

\* statements.push(AstNode { value, position }): the statements a result adds
Pushed(r) == Then(r, LAMBDA stmt : Parsed(stmt.p, <<stmt.val>>))

\* The match of parse_statements on the token it has just taken (parser.rs 504-587)
ParseStatement(p) ==
    LET kind == p.curr_token.kind
    IN  CASE kind = "Write" -> Pushed(ParseWriteStmt(p))
          [] kind = "Func" -> Pushed(ParseFuncStmt(p))
          [] kind = "Proc" -> Pushed(ParseProcStmt(p))
          [] kind = "Return" -> Pushed(ParseReturnStmt(p))
          [] kind = "If" -> Pushed(ParseIfStmt(p))
          [] kind = "Else" -> Pushed(ParseElseStmt(p))
          [] kind = "Set" -> Pushed(ParseSetStmt(p))
          [] kind = "Ident" ->
                LET token == LexerPeek(p)
                IN  CASE token.kind = "LParen" -> Pushed(ParseSubprogcallStmt(p))
                      [] token.kind = "Equal" -> Pushed(ParseVarassignStmt(p))
                      [] token.kind = "None" -> Parsed([p EXCEPT !.dropped = @ + 1], <<>>)
                      [] OTHER -> SyntaxExit(p)
          [] OTHER -> SyntaxExit(p)

\* parse_statements (parser.rs 496-590)
ParseStatements(p, statements) ==
    LET token == LexerPeek(p)
    IN  IF token.kind = "None" \/ token.kind = "Stop" \/ token.kind = "End"
        THEN Parsed(p, statements)
        ELSE Then(ParseStatement([LexerNext(p) EXCEPT !.curr_token = token]), LAMBDA stmt :
             ParseStatements(stmt.p, statements \o stmt.val))

\* parse_program (parser.rs 156-158)
ParseProgram(toks) == ParseStatements(NewParser(toks), <<>>)

(***************************************************************************)
(* SpecParse: parse_program on a token sequence.  The sequences are every  *)
(* sequence of up to MaxToks tokens of a small alphabet, the statements    *)
(* `return p1 op1 p2 .. pn ;` with up to MaxChain primaries, and a few     *)
(* whole programs, alone or followed by one more token.                    *)
(***************************************************************************)
MaxToks == 3
MaxChain == 3

TokenAlphabet ==
    {Tok("Stop"), Tok("End"), Tok("Return"), Tok("Semicolon"), Tok("Equal"), Tok("Else"),
     Tok("LParen"), Tok("RParen"), Tok("Plus"), TIdent("x"), TNumber(<<"1">>)}

RawTokenSeqs == SeqsUpTo(TokenAlphabet, MaxToks)

ChainPrimaries == {TNumber(<<"1">>), TNumber(<<"2">>), TNumber(<<"3">>), TIdent("x")}

\* The operator tokens Op::from has an arm for.
ChainOperators ==
    {Tok(k) : k \in {"EqualEqual", "NotEqual", "And", "Or", "Plus", "Minus", "Star",
                     "Slash", "Percent"}}

\* return p1 op1 p2 .. pn ;
ChainStatement(primaries, operators) ==
    <<Tok("Return")>>
    \o [i \in 1..(2 * Len(primaries) - 1) |->
          IF i % 2 = 1 THEN primaries[(i + 1) \div 2] ELSE operators[i \div 2]]
    \o <<Tok("Semicolon")>>

\* func main(): int start set mut x : int = 4294967296; if x == 1 then write("a"); else x = 2; end return f(x, 1); stop
MainTokens ==
    <<Tok("Func"), TIdent("main"), Tok("LParen"), Tok("RParen"), Tok("Colon"), Tok("Int"),
      Tok("Start"),
      Tok("Set"), Tok("Mut"), TIdent("x"), Tok("Colon"), Tok("Int"), Tok("Equal"),
      TNumber(<<"4", "2", "9", "4", "9", "6", "7", "2", "9", "6">>), Tok("Semicolon"),
      Tok("If"), TIdent("x"), Tok("EqualEqual"), TNumber(<<"1">>), Tok("Then"),
      Tok("Write"), Tok("LParen"), TString("a"), Tok("RParen"), Tok("Semicolon"),
      Tok("Else"), TIdent("x"), Tok("Equal"), TNumber(<<"2">>), Tok("Semicolon"),
      Tok("End"),
      Tok("Return"), TIdent("f"), Tok("LParen"), TIdent("x"), Tok("Comma"),
      TNumber(<<"1">>), Tok("RParen"), Tok("Semicolon"),
      Tok("Stop")>>

\* proc f(a: int, b: nat) start set y := true; f(1, 2); stop
ProcTokens ==
    <<Tok("Proc"), TIdent("f"), Tok("LParen"), TIdent("a"), Tok("Colon"), Tok("Int"),
      Tok("Comma"), TIdent("b"), Tok("Colon"), Tok("Nat"), Tok("RParen"), Tok("Start"),
      Tok("Set"), TIdent("y"), Tok("Walrus"), Tok("True"), Tok("Semicolon"),
      TIdent("f"), Tok("LParen"), TNumber(<<"1">>), Tok("Comma"), TNumber(<<"2">>),
      Tok("RParen"), Tok("Semicolon"),
      Tok("Stop")>>

ProgramTokens == {MainTokens, ProcTokens, ProcTokens \o MainTokens}

\* i128::MAX = 2^127 - 1, the largest literal parse::<i128>() takes, and
\* the literal one above it.
I128MaxDigits ==
    <<"1", "7", "0", "1", "4", "1", "1", "8", "3", "4", "6", "0", "4", "6", "9", "2",
      "3", "1", "7", "3", "1", "6", "8", "7", "3", "0", "3", "7", "1", "5", "8", "8",
      "4", "1", "0", "5", "7", "2", "7">>

AboveI128MaxDigits ==
    <<"1", "7", "0", "1", "4", "1", "1", "8", "3", "4", "6", "0", "4", "6", "9", "2",
      "3", "1", "7", "3", "1", "6", "8", "7", "3", "0", "3", "7", "1", "5", "8", "8",
      "4", "1", "0", "5", "7", "2", "8">>

\* return 170141183460469231731687303715884105727 ;   and the same one above
LargeNumberTokens ==
    {<<Tok("Return"), TNumber(digits), Tok("Semicolon")>> :
        digits \in {I128MaxDigits, AboveI128MaxDigits}}

TokenInputs ==
    RawTokenSeqs \cup ProgramTokens \cup LargeNumberTokens
    \cup {prog \o <<t>> \o rest : prog \in ProgramTokens, t \in TokenAlphabet,
                                  rest \in {<<>>, MainTokens}}

InitParse ==
    /\ pc = "parse"
    /\ \/ tokens \in TokenInputs
       \/ \E n \in 1..MaxChain :
             \E primaries \in [1..n -> ChainPrimaries], operators \in [1..(n - 1) -> ChainOperators] :
                tokens = ChainStatement(primaries, operators)
    /\ parsed = Parsed(NewParser(tokens), <<>>)
    /\ ast = <<>>
    /\ sem = NewAnalyzer
    /\ cc = NotRun
    /\ compiler_ctx = CompilerCtx(FALSE)
    /\ c_file = Absent
    /\ idx = 1
    /\ bidx = 0
    /\ reported = <<>>
    /\ ir = <<>>
    /\ code = <<>>
    /\ lex = <<>>
    /\ probe = <<>>

\* let mut ast = parser.parse_program() (main.rs 98)
ParseProgramStep ==
    /\ pc = "parse"
    /\ parsed' = ParseProgram(tokens)
    /\ pc' = CASE parsed'.status = "ok" -> "parsed"
               [] parsed'.status = "exit" -> "exit_syntax"
               [] parsed'.status = "panic" -> "panic_parse"
    /\ UNCHANGED <<ast, sem, idx, bidx, reported, ir, code, tokens, lex, probe, cc,
                   compiler_ctx, c_file>>

NextParse == ParseProgramStep

SpecParse == InitParse /\ [][NextParse]_vars

\* C2: parse_program returns (rather than ending the process with a
\* diagnostic) only when every token has been consumed into the statements it
\* returns: no token is left unread and none was taken and dropped.
C2_ReturnsOnlyWhenAllTokensParsed ==
    pc = "parsed" => parsed.p.pos > Len(tokens) /\ parsed.p.dropped = 0

\* C24: whatever the token sequence, the parser returns an AST or ends with a
\* formatted syntax error; it never aborts through an unreachable branch, and
\* in particular Op::from yields an operator for every token that
\* parse_expression takes in operator position.
C24_ParserNeverReachesUnreachable ==
    /\ pc # "panic_parse"
    /\ pc \in {"parsed", "exit_syntax"} => parsed.status \in {"ok", "exit"}

\* A primary of one token, and the node it stands for.
PrimaryTokens == {"Number", "String", "True", "False", "Ident"}

PrimaryOf(token) ==
    CASE token.kind = "Number" -> ENumber(ParseI128(token.num).val)
      [] token.kind = "String" -> EString(token.str)
      [] token.kind = "True" -> EBool(TRUE)
      [] token.kind = "False" -> EBool(FALSE)
      [] token.kind = "Ident" -> EVariable(token.name)

\* The nine binary operators by the kind of their token.
OperatorOf ==
    [EqualEqual |-> "Equal", NotEqual |-> "NotEqual", And |-> "And", Or |-> "Or",
     Plus |-> "Add", Minus |-> "Minus", Star |-> "Mult", Slash |-> "Div",
     Percent |-> "Mod"]

\* p1 op1 p2 op2 .. pn
IsChain(toks) ==
    /\ Len(toks) % 2 = 1
    /\ \A i \in 1..Len(toks) :
          IF i % 2 = 1 THEN toks[i].kind \in PrimaryTokens
          ELSE toks[i].kind \in DOMAIN OperatorOf

\* return p1 op1 p2 .. pn ;
IsReturnOfChain(toks) ==
    /\ Len(toks) >= 3
    /\ toks[1].kind = "Return"
    /\ toks[Len(toks)].kind = "Semicolon"
    /\ IsChain(SubSeq(toks, 2, Len(toks) - 1))

\* op1(p1, op2(p2, .. pn))
RECURSIVE RightNested(_)
RightNested(chain) ==
    IF Len(chain) = 1 THEN PrimaryOf(chain[1])
    ELSE EBinary(OperatorOf[chain[2].kind], PrimaryOf(chain[1]),
                 RightNested(SubSeq(chain, 3, Len(chain))))

\* C7 as stated: every expression p1 op1 p2 op2 .. pn of primaries joined by
\* any of the nine binary operators parses to op1(p1, op2(p2, .. pn)).
C7_ChainParsesRightNested ==
    (pc # "parse" /\ IsReturnOfChain(tokens)) =>
        /\ pc = "parsed"
        /\ parsed.val = <<SReturn("Unknown", RightNested(SubSeq(tokens, 2, Len(tokens) - 1)))>>

\* Every number literal of the tokens is one parse::<i128>() takes.
LiteralsFitI128(toks) ==
    \A i \in 1..Len(toks) : toks[i].kind = "Number" => ParseI128(toks[i].num).ok

\* C7: an expression p1 op1 p2 op2 .. pn of primaries joined by any of the
\* nine binary operators, whose number literals all fit i128, parses to
\* op1(p1, op2(p2, .. pn)): the left operand of every binary node is one
\* primary and its right operand the parse of all that follows.  With a
\* literal that does not fit, the parse ends in the syntax error exit.
C7_ChainOfLiteralsInRangeParsesRightNested ==
    (pc # "parse" /\ IsReturnOfChain(tokens)) =>
        IF LiteralsFitI128(tokens)
        THEN /\ pc = "parsed"
             /\ parsed.val =
                   <<SReturn("Unknown", RightNested(SubSeq(tokens, 2, Len(tokens) - 1)))>>
        ELSE pc = "exit_syntax"

C7_Witness ==
    /\ pc = "parsed"
    /\ IsReturnOfChain(tokens)
    /\ Len(tokens) = 7
    /\ tokens[3].kind = "Star"
    /\ tokens[5].kind = "Minus"
    /\ parsed.val[1].expr.op = "Mult"
    /\ parsed.val[1].expr.rhs.e = "Binary"

\* return 1 + 2 * 3 ;
OnePlusTwoTimesThree ==
    <<Tok("Return"), TNumber(<<"1">>), Tok("Plus"), TNumber(<<"2">>), Tok("Star"),
      TNumber(<<"3">>), Tok("Semicolon")>>

Lit(d) == ENumber(Num(0, d))

\* C8 as stated: `1 + 2 * 3` parses to (1 + 2) * 3, a Mult node whose left
\* operand is the node (1 Add 2) and whose right operand is the literal 3.
C8_ParsesAsSumTimesThree ==
    (pc # "parse" /\ tokens = OnePlusTwoTimesThree) =>
        /\ pc = "parsed"
        /\ parsed.val[1].expr = EBinary("Mult", EBinary("Add", Lit(1), Lit(2)), Lit(3))

\* C8, amended: `1 + 2 * 3` parses to 1 + (2 * 3), an Add node whose left
\* operand is the literal 1 and whose right operand is the node (2 Mult 3).
C8_ParsesAsOnePlusProduct ==
    (pc # "parse" /\ tokens = OnePlusTwoTimesThree) =>
        /\ pc = "parsed"
        /\ parsed.val[1].expr = EBinary("Add", Lit(1), EBinary("Mult", Lit(2), Lit(3)))

C8_Witness ==
    /\ pc = "parsed"
    /\ tokens = OnePlusTwoTimesThree
    /\ parsed.val[1].expr.e = "Binary"

(***************************************************************************)
(* lexer.rs: Lexer.  The source is a sequence of characters: an ASCII      *)
(* character is the string of that character, NUL stands for '\0', and a   *)
(* character outside ASCII is written by its code point.  pos and read_pos *)
(* count from 0 as in the code.  `at` is the position inside next(): idle *)
(* between two calls, then one of the loops of skip_whitespace and         *)
(* next_token.  `out` is the tokens next() has returned so far.  `text` is *)
(* the String the running loop pushes to, character by character; a token *)
(* takes the text of an identifier or a string literal as one string, and  *)
(* the text of a number as its digits.                                     *)
(***************************************************************************)
NUL == "NUL"

Digits == {"0", "1", "2", "3", "4", "5", "6", "7", "8", "9"}

Letters ==
    {"a", "b", "c", "d", "e", "f", "g", "h", "i", "j", "k", "l", "m", "n", "o", "p", "q",
     "r", "s", "t", "u", "v", "w", "x", "y", "z", "A", "B", "C", "D", "E", "F", "G", "H",
     "I", "J", "K", "L", "M", "N", "O", "P", "Q", "R", "S", "T", "U", "V", "W", "X", "Y",
     "Z"}

\* A character outside ASCII is written by its code point in hexadecimal,
\* "<U+00E9>"; CodePoint is the number so written.
CodePoint(c) ==
    LET hex == SubSeq(c, 4, Len(c) - 1)
        Value(i) ==
            LET h == SubSeq(hex, i, i)
            IN  IF \E v \in 1..16 : SubSeq("0123456789ABCDEF", v, v) = h
                THEN (CHOOSE v \in 1..16 : SubSeq("0123456789ABCDEF", v, v) = h) - 1
                ELSE (CHOOSE v \in 1..16 : SubSeq("0123456789abcdef", v, v) = h) - 1
        RECURSIVE Upto(_)
        Upto(n) == IF n = 0 THEN 0 ELSE Upto(n - 1) * 16 + Value(n)
    IN  Upto(Len(hex))

\* char::is_alphabetic outside ASCII: the code points with the property
\* Alphabetic, as ranges <<first, last>> (Unicode 17.0).
OtherAlphabetic ==
    {<<170, 170>>, <<181, 181>>, <<186, 186>>, <<192, 214>>, <<216, 246>>, <<248, 705>>,
     <<710, 721>>, <<736, 740>>, <<748, 748>>, <<750, 750>>, <<837, 837>>, <<867, 884>>,
     <<886, 887>>, <<890, 893>>, <<895, 895>>, <<902, 902>>, <<904, 906>>, <<908, 908>>,
     <<910, 929>>, <<931, 1013>>, <<1015, 1153>>, <<1162, 1327>>, <<1329, 1366>>,
     <<1369, 1369>>, <<1376, 1416>>, <<1456, 1469>>, <<1471, 1471>>, <<1473, 1474>>,
     <<1476, 1477>>, <<1479, 1479>>, <<1488, 1514>>, <<1519, 1522>>, <<1552, 1562>>,
     <<1568, 1623>>, <<1625, 1631>>, <<1646, 1747>>, <<1749, 1756>>, <<1761, 1768>>,
     <<1773, 1775>>, <<1786, 1788>>, <<1791, 1791>>, <<1808, 1855>>, <<1869, 1969>>,
     <<1994, 2026>>, <<2036, 2037>>, <<2042, 2042>>, <<2048, 2071>>, <<2074, 2092>>,
     <<2112, 2136>>, <<2144, 2154>>, <<2160, 2183>>, <<2185, 2191>>, <<2199, 2199>>,
     <<2208, 2249>>, <<2260, 2271>>, <<2275, 2281>>, <<2288, 2363>>, <<2365, 2380>>,
     <<2382, 2384>>, <<2389, 2403>>, <<2417, 2435>>, <<2437, 2444>>, <<2447, 2448>>,
     <<2451, 2472>>, <<2474, 2480>>, <<2482, 2482>>, <<2486, 2489>>, <<2493, 2500>>,
     <<2503, 2504>>, <<2507, 2508>>, <<2510, 2510>>, <<2519, 2519>>, <<2524, 2525>>,
     <<2527, 2531>>, <<2544, 2545>>, <<2556, 2556>>, <<2561, 2563>>, <<2565, 2570>>,
     <<2575, 2576>>, <<2579, 2600>>, <<2602, 2608>>, <<2610, 2611>>, <<2613, 2614>>,
     <<2616, 2617>>, <<2622, 2626>>, <<2631, 2632>>, <<2635, 2636>>, <<2641, 2641>>,
     <<2649, 2652>>, <<2654, 2654>>, <<2672, 2677>>, <<2689, 2691>>, <<2693, 2701>>,
     <<2703, 2705>>, <<2707, 2728>>, <<2730, 2736>>, <<2738, 2739>>, <<2741, 2745>>,
     <<2749, 2757>>, <<2759, 2761>>, <<2763, 2764>>, <<2768, 2768>>, <<2784, 2787>>,
     <<2809, 2812>>, <<2817, 2819>>, <<2821, 2828>>, <<2831, 2832>>, <<2835, 2856>>,
     <<2858, 2864>>, <<2866, 2867>>, <<2869, 2873>>, <<2877, 2884>>, <<2887, 2888>>,
     <<2891, 2892>>, <<2902, 2903>>, <<2908, 2909>>, <<2911, 2915>>, <<2929, 2929>>,
     <<2946, 2947>>, <<2949, 2954>>, <<2958, 2960>>, <<2962, 2965>>, <<2969, 2970>>,
     <<2972, 2972>>, <<2974, 2975>>, <<2979, 2980>>, <<2984, 2986>>, <<2990, 3001>>,
     <<3006, 3010>>, <<3014, 3016>>, <<3018, 3020>>, <<3024, 3024>>, <<3031, 3031>>,
     <<3072, 3084>>, <<3086, 3088>>, <<3090, 3112>>, <<3114, 3129>>, <<3133, 3140>>,
     <<3142, 3144>>, <<3146, 3148>>, <<3157, 3158>>, <<3160, 3162>>, <<3164, 3165>>,
     <<3168, 3171>>, <<3200, 3203>>, <<3205, 3212>>, <<3214, 3216>>, <<3218, 3240>>,
     <<3242, 3251>>, <<3253, 3257>>, <<3261, 3268>>, <<3270, 3272>>, <<3274, 3276>>,
     <<3285, 3286>>, <<3292, 3294>>, <<3296, 3299>>, <<3313, 3315>>, <<3328, 3340>>,
     <<3342, 3344>>, <<3346, 3386>>, <<3389, 3396>>, <<3398, 3400>>, <<3402, 3404>>,
     <<3406, 3406>>, <<3412, 3415>>, <<3423, 3427>>, <<3450, 3455>>, <<3457, 3459>>,
     <<3461, 3478>>, <<3482, 3505>>, <<3507, 3515>>, <<3517, 3517>>, <<3520, 3526>>,
     <<3535, 3540>>, <<3542, 3542>>, <<3544, 3551>>, <<3570, 3571>>, <<3585, 3642>>,
     <<3648, 3654>>, <<3661, 3661>>, <<3713, 3714>>, <<3716, 3716>>, <<3718, 3722>>,
     <<3724, 3747>>, <<3749, 3749>>, <<3751, 3769>>, <<3771, 3773>>, <<3776, 3780>>,
     <<3782, 3782>>, <<3789, 3789>>, <<3804, 3807>>, <<3840, 3840>>, <<3904, 3911>>,
     <<3913, 3948>>, <<3953, 3971>>, <<3976, 3991>>, <<3993, 4028>>, <<4096, 4150>>,
     <<4152, 4152>>, <<4155, 4159>>, <<4176, 4239>>, <<4250, 4253>>, <<4256, 4293>>,
     <<4295, 4295>>, <<4301, 4301>>, <<4304, 4346>>, <<4348, 4680>>, <<4682, 4685>>,
     <<4688, 4694>>, <<4696, 4696>>, <<4698, 4701>>, <<4704, 4744>>, <<4746, 4749>>,
     <<4752, 4784>>, <<4786, 4789>>, <<4792, 4798>>, <<4800, 4800>>, <<4802, 4805>>,
     <<4808, 4822>>, <<4824, 4880>>, <<4882, 4885>>, <<4888, 4954>>, <<4992, 5007>>,
     <<5024, 5109>>, <<5112, 5117>>, <<5121, 5740>>, <<5743, 5759>>, <<5761, 5786>>,
     <<5792, 5866>>, <<5870, 5880>>, <<5888, 5907>>, <<5919, 5939>>, <<5952, 5971>>,
     <<5984, 5996>>, <<5998, 6000>>, <<6002, 6003>>, <<6016, 6067>>, <<6070, 6088>>,
     <<6103, 6103>>, <<6108, 6108>>, <<6176, 6264>>, <<6272, 6314>>, <<6320, 6389>>,
     <<6400, 6430>>, <<6432, 6443>>, <<6448, 6456>>, <<6480, 6509>>, <<6512, 6516>>,
     <<6528, 6571>>, <<6576, 6601>>, <<6656, 6683>>, <<6688, 6750>>, <<6753, 6772>>,
     <<6823, 6823>>, <<6847, 6848>>, <<6860, 6862>>, <<6912, 6963>>, <<6965, 6979>>,
     <<6981, 6988>>, <<7040, 7081>>, <<7084, 7087>>, <<7098, 7141>>, <<7143, 7153>>,
     <<7168, 7222>>, <<7245, 7247>>, <<7258, 7293>>, <<7296, 7306>>, <<7312, 7354>>,
     <<7357, 7359>>, <<7401, 7404>>, <<7406, 7411>>, <<7413, 7414>>, <<7418, 7418>>,
     <<7424, 7615>>, <<7635, 7668>>, <<7680, 7957>>, <<7960, 7965>>, <<7968, 8005>>,
     <<8008, 8013>>, <<8016, 8023>>, <<8025, 8025>>, <<8027, 8027>>, <<8029, 8029>>,
     <<8031, 8061>>, <<8064, 8116>>, <<8118, 8124>>, <<8126, 8126>>, <<8130, 8132>>,
     <<8134, 8140>>, <<8144, 8147>>, <<8150, 8155>>, <<8160, 8172>>, <<8178, 8180>>,
     <<8182, 8188>>, <<8305, 8305>>, <<8319, 8319>>, <<8336, 8348>>, <<8450, 8450>>,
     <<8455, 8455>>, <<8458, 8467>>, <<8469, 8469>>, <<8473, 8477>>, <<8484, 8484>>,
     <<8486, 8486>>, <<8488, 8488>>, <<8490, 8493>>, <<8495, 8505>>, <<8508, 8511>>,
     <<8517, 8521>>, <<8526, 8526>>, <<8544, 8584>>, <<9398, 9449>>, <<11264, 11492>>,
     <<11499, 11502>>, <<11506, 11507>>, <<11520, 11557>>, <<11559, 11559>>,
     <<11565, 11565>>, <<11568, 11623>>, <<11631, 11631>>, <<11648, 11670>>,
     <<11680, 11686>>, <<11688, 11694>>, <<11696, 11702>>, <<11704, 11710>>,
     <<11712, 11718>>, <<11720, 11726>>, <<11728, 11734>>, <<11736, 11742>>,
     <<11744, 11775>>, <<11823, 11823>>, <<12293, 12295>>, <<12321, 12329>>,
     <<12337, 12341>>, <<12344, 12348>>, <<12353, 12438>>, <<12445, 12447>>,
     <<12449, 12538>>, <<12540, 12543>>, <<12549, 12591>>, <<12593, 12686>>,
     <<12704, 12735>>, <<12784, 12799>>, <<13312, 19903>>, <<19968, 42124>>,
     <<42192, 42237>>, <<42240, 42508>>, <<42512, 42527>>, <<42538, 42539>>,
     <<42560, 42606>>, <<42612, 42619>>, <<42623, 42735>>, <<42775, 42783>>,
     <<42786, 42888>>, <<42891, 42972>>, <<42993, 43013>>, <<43015, 43047>>,
     <<43072, 43123>>, <<43136, 43203>>, <<43205, 43205>>, <<43250, 43255>>,
     <<43259, 43259>>, <<43261, 43263>>, <<43274, 43306>>, <<43312, 43346>>,
     <<43360, 43388>>, <<43392, 43442>>, <<43444, 43455>>, <<43471, 43471>>,
     <<43488, 43503>>, <<43514, 43518>>, <<43520, 43574>>, <<43584, 43597>>,
     <<43616, 43638>>, <<43642, 43710>>, <<43712, 43712>>, <<43714, 43714>>,
     <<43739, 43741>>, <<43744, 43759>>, <<43762, 43765>>, <<43777, 43782>>,
     <<43785, 43790>>, <<43793, 43798>>, <<43808, 43814>>, <<43816, 43822>>,
     <<43824, 43866>>, <<43868, 43881>>, <<43888, 44010>>, <<44032, 55203>>,
     <<55216, 55238>>, <<55243, 55291>>, <<63744, 64109>>, <<64112, 64217>>,
     <<64256, 64262>>, <<64275, 64279>>, <<64285, 64296>>, <<64298, 64310>>,
     <<64312, 64316>>, <<64318, 64318>>, <<64320, 64321>>, <<64323, 64324>>,
     <<64326, 64433>>, <<64467, 64829>>, <<64848, 64911>>, <<64914, 64967>>,
     <<65008, 65019>>, <<65136, 65140>>, <<65142, 65276>>, <<65313, 65338>>,
     <<65345, 65370>>, <<65382, 65470>>, <<65474, 65479>>, <<65482, 65487>>,
     <<65490, 65495>>, <<65498, 65500>>, <<65536, 65547>>, <<65549, 65574>>,
     <<65576, 65594>>, <<65596, 65597>>, <<65599, 65613>>, <<65616, 65629>>,
     <<65664, 65786>>, <<65856, 65908>>, <<66176, 66204>>, <<66208, 66256>>,
     <<66304, 66335>>, <<66349, 66378>>, <<66384, 66426>>, <<66432, 66461>>,
     <<66464, 66499>>, <<66504, 66511>>, <<66513, 66517>>, <<66560, 66717>>,
     <<66736, 66771>>, <<66776, 66811>>, <<66816, 66855>>, <<66864, 66915>>,
     <<66928, 66938>>, <<66940, 66954>>, <<66956, 66962>>, <<66964, 66965>>,
     <<66967, 66977>>, <<66979, 66993>>, <<66995, 67001>>, <<67003, 67004>>,
     <<67008, 67059>>, <<67072, 67382>>, <<67392, 67413>>, <<67424, 67431>>,
     <<67456, 67461>>, <<67463, 67504>>, <<67506, 67514>>, <<67584, 67589>>,
     <<67592, 67592>>, <<67594, 67637>>, <<67639, 67640>>, <<67644, 67644>>,
     <<67647, 67669>>, <<67680, 67702>>, <<67712, 67742>>, <<67808, 67826>>,
     <<67828, 67829>>, <<67840, 67861>>, <<67872, 67897>>, <<67904, 67929>>,
     <<67968, 68023>>, <<68030, 68031>>, <<68096, 68099>>, <<68101, 68102>>,
     <<68108, 68115>>, <<68117, 68119>>, <<68121, 68149>>, <<68192, 68220>>,
     <<68224, 68252>>, <<68288, 68295>>, <<68297, 68324>>, <<68352, 68405>>,
     <<68416, 68437>>, <<68448, 68466>>, <<68480, 68497>>, <<68608, 68680>>,
     <<68736, 68786>>, <<68800, 68850>>, <<68864, 68903>>, <<68938, 68965>>,
     <<68969, 68969>>, <<68975, 68997>>, <<69248, 69289>>, <<69291, 69292>>,
     <<69296, 69297>>, <<69314, 69319>>, <<69370, 69372>>, <<69376, 69404>>,
     <<69415, 69415>>, <<69424, 69445>>, <<69488, 69505>>, <<69552, 69572>>,
     <<69600, 69622>>, <<69632, 69701>>, <<69745, 69749>>, <<69760, 69816>>,
     <<69826, 69826>>, <<69840, 69864>>, <<69888, 69938>>, <<69956, 69959>>,
     <<69968, 70002>>, <<70006, 70006>>, <<70016, 70079>>, <<70081, 70084>>,
     <<70094, 70095>>, <<70106, 70106>>, <<70108, 70108>>, <<70144, 70161>>,
     <<70163, 70196>>, <<70199, 70199>>, <<70206, 70209>>, <<70272, 70278>>,
     <<70280, 70280>>, <<70282, 70285>>, <<70287, 70301>>, <<70303, 70312>>,
     <<70320, 70376>>, <<70400, 70403>>, <<70405, 70412>>, <<70415, 70416>>,
     <<70419, 70440>>, <<70442, 70448>>, <<70450, 70451>>, <<70453, 70457>>,
     <<70461, 70468>>, <<70471, 70472>>, <<70475, 70476>>, <<70480, 70480>>,
     <<70487, 70487>>, <<70493, 70499>>, <<70528, 70537>>, <<70539, 70539>>,
     <<70542, 70542>>, <<70544, 70581>>, <<70583, 70592>>, <<70594, 70594>>,
     <<70597, 70597>>, <<70599, 70602>>, <<70604, 70605>>, <<70609, 70609>>,
     <<70611, 70611>>, <<70656, 70721>>, <<70723, 70725>>, <<70727, 70730>>,
     <<70751, 70753>>, <<70784, 70849>>, <<70852, 70853>>, <<70855, 70855>>,
     <<71040, 71093>>, <<71096, 71102>>, <<71128, 71133>>, <<71168, 71230>>,
     <<71232, 71232>>, <<71236, 71236>>, <<71296, 71349>>, <<71352, 71352>>,
     <<71424, 71450>>, <<71453, 71466>>, <<71488, 71494>>, <<71680, 71736>>,
     <<71840, 71903>>, <<71935, 71942>>, <<71945, 71945>>, <<71948, 71955>>,
     <<71957, 71958>>, <<71960, 71989>>, <<71991, 71992>>, <<71995, 71996>>,
     <<71999, 72002>>, <<72096, 72103>>, <<72106, 72151>>, <<72154, 72159>>,
     <<72161, 72161>>, <<72163, 72164>>, <<72192, 72242>>, <<72245, 72254>>,
     <<72272, 72343>>, <<72349, 72349>>, <<72368, 72440>>, <<72544, 72551>>,
     <<72640, 72672>>, <<72704, 72712>>, <<72714, 72758>>, <<72760, 72766>>,
     <<72768, 72768>>, <<72818, 72847>>, <<72850, 72871>>, <<72873, 72886>>,
     <<72960, 72966>>, <<72968, 72969>>, <<72971, 73014>>, <<73018, 73018>>,
     <<73020, 73021>>, <<73023, 73025>>, <<73027, 73027>>, <<73030, 73031>>,
     <<73056, 73061>>, <<73063, 73064>>, <<73066, 73102>>, <<73104, 73105>>,
     <<73107, 73110>>, <<73112, 73112>>, <<73136, 73179>>, <<73440, 73462>>,
     <<73472, 73488>>, <<73490, 73530>>, <<73534, 73536>>, <<73648, 73648>>,
     <<73728, 74649>>, <<74752, 74862>>, <<74880, 75075>>, <<77712, 77808>>,
     <<77824, 78895>>, <<78913, 78918>>, <<78944, 82938>>, <<82944, 83526>>,
     <<90368, 90414>>, <<92160, 92728>>, <<92736, 92766>>, <<92784, 92862>>,
     <<92880, 92909>>, <<92928, 92975>>, <<92992, 92995>>, <<93027, 93047>>,
     <<93053, 93071>>, <<93504, 93548>>, <<93760, 93823>>, <<93856, 93880>>,
     <<93883, 93907>>, <<93952, 94026>>, <<94031, 94087>>, <<94095, 94111>>,
     <<94176, 94177>>, <<94179, 94179>>, <<94192, 94198>>, <<94208, 101589>>,
     <<101631, 101662>>, <<101760, 101874>>, <<110576, 110579>>, <<110581, 110587>>,
     <<110589, 110590>>, <<110592, 110882>>, <<110898, 110898>>, <<110928, 110930>>,
     <<110933, 110933>>, <<110948, 110951>>, <<110960, 111355>>, <<113664, 113770>>,
     <<113776, 113788>>, <<113792, 113800>>, <<113808, 113817>>, <<113822, 113822>>,
     <<119808, 119892>>, <<119894, 119964>>, <<119966, 119967>>, <<119970, 119970>>,
     <<119973, 119974>>, <<119977, 119980>>, <<119982, 119993>>, <<119995, 119995>>,
     <<119997, 120003>>, <<120005, 120069>>, <<120071, 120074>>, <<120077, 120084>>,
     <<120086, 120092>>, <<120094, 120121>>, <<120123, 120126>>, <<120128, 120132>>,
     <<120134, 120134>>, <<120138, 120144>>, <<120146, 120485>>, <<120488, 120512>>,
     <<120514, 120538>>, <<120540, 120570>>, <<120572, 120596>>, <<120598, 120628>>,
     <<120630, 120654>>, <<120656, 120686>>, <<120688, 120712>>, <<120714, 120744>>,
     <<120746, 120770>>, <<120772, 120779>>, <<122624, 122654>>, <<122661, 122666>>,
     <<122880, 122886>>, <<122888, 122904>>, <<122907, 122913>>, <<122915, 122916>>,
     <<122918, 122922>>, <<122928, 122989>>, <<123023, 123023>>, <<123136, 123180>>,
     <<123191, 123197>>, <<123214, 123214>>, <<123536, 123565>>, <<123584, 123627>>,
     <<124112, 124139>>, <<124368, 124397>>, <<124400, 124400>>, <<124608, 124638>>,
     <<124640, 124661>>, <<124670, 124671>>, <<124896, 124902>>, <<124904, 124907>>,
     <<124909, 124910>>, <<124912, 124926>>, <<124928, 125124>>, <<125184, 125251>>,
     <<125255, 125255>>, <<125259, 125259>>, <<126464, 126467>>, <<126469, 126495>>,
     <<126497, 126498>>, <<126500, 126500>>, <<126503, 126503>>, <<126505, 126514>>,
     <<126516, 126519>>, <<126521, 126521>>, <<126523, 126523>>, <<126530, 126530>>,
     <<126535, 126535>>, <<126537, 126537>>, <<126539, 126539>>, <<126541, 126543>>,
     <<126545, 126546>>, <<126548, 126548>>, <<126551, 126551>>, <<126553, 126553>>,
     <<126555, 126555>>, <<126557, 126557>>, <<126559, 126559>>, <<126561, 126562>>,
     <<126564, 126564>>, <<126567, 126570>>, <<126572, 126578>>, <<126580, 126583>>,
     <<126585, 126588>>, <<126590, 126590>>, <<126592, 126601>>, <<126603, 126619>>,
     <<126625, 126627>>, <<126629, 126633>>, <<126635, 126651>>, <<127280, 127305>>,
     <<127312, 127337>>, <<127344, 127369>>, <<131072, 173791>>, <<173824, 178205>>,
     <<178208, 183981>>, <<183984, 191456>>, <<191472, 192093>>, <<194560, 195101>>,
     <<196608, 201546>>, <<201552, 210041>>}

\* char::is_numeric outside ASCII: the code points of the general categories
\* Nd, Nl and No, as ranges <<first, last>> (Unicode 17.0).
OtherNumeric ==
    {<<178, 179>>, <<185, 185>>, <<188, 190>>, <<1632, 1641>>, <<1776, 1785>>,
     <<1984, 1993>>, <<2406, 2415>>, <<2534, 2543>>, <<2548, 2553>>, <<2662, 2671>>,
     <<2790, 2799>>, <<2918, 2927>>, <<2930, 2935>>, <<3046, 3058>>, <<3174, 3183>>,
     <<3192, 3198>>, <<3302, 3311>>, <<3416, 3422>>, <<3430, 3448>>, <<3558, 3567>>,
     <<3664, 3673>>, <<3792, 3801>>, <<3872, 3891>>, <<4160, 4169>>, <<4240, 4249>>,
     <<4969, 4988>>, <<5870, 5872>>, <<6112, 6121>>, <<6128, 6137>>, <<6160, 6169>>,
     <<6470, 6479>>, <<6608, 6618>>, <<6784, 6793>>, <<6800, 6809>>, <<6992, 7001>>,
     <<7088, 7097>>, <<7232, 7241>>, <<7248, 7257>>, <<8304, 8304>>, <<8308, 8313>>,
     <<8320, 8329>>, <<8528, 8578>>, <<8581, 8585>>, <<9312, 9371>>, <<9450, 9471>>,
     <<10102, 10131>>, <<11517, 11517>>, <<12295, 12295>>, <<12321, 12329>>,
     <<12344, 12346>>, <<12690, 12693>>, <<12832, 12841>>, <<12872, 12879>>,
     <<12881, 12895>>, <<12928, 12937>>, <<12977, 12991>>, <<42528, 42537>>,
     <<42726, 42735>>, <<43056, 43061>>, <<43216, 43225>>, <<43264, 43273>>,
     <<43472, 43481>>, <<43504, 43513>>, <<43600, 43609>>, <<44016, 44025>>,
     <<65296, 65305>>, <<65799, 65843>>, <<65856, 65912>>, <<65930, 65931>>,
     <<66273, 66299>>, <<66336, 66339>>, <<66369, 66369>>, <<66378, 66378>>,
     <<66513, 66517>>, <<66720, 66729>>, <<67672, 67679>>, <<67705, 67711>>,
     <<67751, 67759>>, <<67835, 67839>>, <<67862, 67867>>, <<68028, 68029>>,
     <<68032, 68047>>, <<68050, 68095>>, <<68160, 68168>>, <<68221, 68222>>,
     <<68253, 68255>>, <<68331, 68335>>, <<68440, 68447>>, <<68472, 68479>>,
     <<68521, 68527>>, <<68858, 68863>>, <<68912, 68921>>, <<68928, 68937>>,
     <<69216, 69246>>, <<69405, 69414>>, <<69457, 69460>>, <<69573, 69579>>,
     <<69714, 69743>>, <<69872, 69881>>, <<69942, 69951>>, <<70096, 70105>>,
     <<70113, 70132>>, <<70384, 70393>>, <<70736, 70745>>, <<70864, 70873>>,
     <<71248, 71257>>, <<71360, 71369>>, <<71376, 71395>>, <<71472, 71483>>,
     <<71904, 71922>>, <<72016, 72025>>, <<72688, 72697>>, <<72784, 72812>>,
     <<73040, 73049>>, <<73120, 73129>>, <<73184, 73193>>, <<73552, 73561>>,
     <<73664, 73684>>, <<74752, 74862>>, <<90416, 90425>>, <<92768, 92777>>,
     <<92864, 92873>>, <<93008, 93017>>, <<93019, 93025>>, <<93552, 93561>>,
     <<93824, 93846>>, <<94196, 94198>>, <<118000, 118009>>, <<119488, 119507>>,
     <<119520, 119539>>, <<119648, 119672>>, <<120782, 120831>>, <<123200, 123209>>,
     <<123632, 123641>>, <<124144, 124153>>, <<124401, 124410>>, <<125127, 125135>>,
     <<125264, 125273>>, <<126065, 126123>>, <<126125, 126127>>, <<126129, 126132>>,
     <<126209, 126253>>, <<126255, 126269>>, <<127232, 127244>>, <<130032, 130041>>}

\* char::is_alphanumeric: is_alphabetic or is_numeric
IsAlphanumeric(c) ==
    \/ c \in Letters \cup Digits
    \/ /\ Len(c) > 3
       /\ SubSeq(c, 1, 3) = "<U+"
       /\ \E range \in OtherAlphabetic \cup OtherNumeric :
             range[1] <= CodePoint(c) /\ CodePoint(c) <= range[2]

\* The string buffer of an unterminated literal takes one '\0' per iteration;
\* the model counts them up to MaxNuls.
MaxNuls == 2

\* Lexer::new (lexer.rs 118-127)
NewLexer(source) ==
    [source |-> source, pos |-> 0, read_pos |-> 0, row |-> 1, column |-> 0,
     at |-> "idle", text |-> <<>>, nuls |-> 0, start_row |-> 0, start_col |-> 0,
     out |-> <<>>]

\* peek (lexer.rs 129-134)
Peek(l) == IF l.read_pos >= Len(l.source) THEN NUL ELSE l.source[l.read_pos + 1]

\* peek_next (lexer.rs 136-141): it reads source[read_pos + 1] without a check
\* of that index, and panics when read_pos is the last index.
PeekNext(l) ==
    IF l.read_pos >= Len(l.source) THEN NUL
    ELSE IF l.read_pos + 1 >= Len(l.source) THEN "panic"
    ELSE l.source[l.read_pos + 2]

\* advance (lexer.rs 143-151): the lexer after it; the character it returns
\* is the one peek returned before it.
Advance(l) ==
    IF l.read_pos >= Len(l.source) THEN l
    ELSE [l EXCEPT !.column = @ + 1, !.pos = l.read_pos, !.read_pos = @ + 1]

\* make_token (lexer.rs 179-186), and the end of the call of next() that
\* returns the token
MakeToken(token_kind, start_row, start_col) ==
    token_kind @@ [row |-> start_row, column |-> start_col]

Return(l, token) == [l EXCEPT !.out = Append(@, token), !.at = "idle"]

\* The String built by the pushes of the characters.
RECURSIVE TextOf(_)
TextOf(chars) ==
    IF chars = <<>> THEN "" ELSE TextOf(SubSeq(chars, 1, Len(chars) - 1)) \o chars[Len(chars)]

\* classify_ident (lexer.rs 188-212)
ClassifyIdent(ident) ==
    CASE ident = "start" -> Tok("Start")
      [] ident = "stop" -> Tok("Stop")
      [] ident = "string" -> Tok("Str")
      [] ident = "set" -> Tok("Set")
      [] ident = "mut" -> Tok("Mut")
      [] ident = "func" -> Tok("Func")
      [] ident = "proc" -> Tok("Proc")
      [] ident = "if" -> Tok("If")
      [] ident = "true" -> Tok("True")
      [] ident = "false" -> Tok("False")
      [] ident = "else" -> Tok("Else")
      [] ident = "or" -> Tok("Or")
      [] ident = "and" -> Tok("And")
      [] ident = "then" -> Tok("Then")
      [] ident = "end" -> Tok("End")
      [] ident = "int" -> Tok("Int")
      [] ident = "nat" -> Tok("Nat")
      [] ident = "bool" -> Tok("Bool")
      [] ident = "write" -> Tok("Write")
      [] ident = "return" -> Tok("Return")
      [] OTHER -> TIdent(ident)

\* One iteration of the loop of skip_whitespace (lexer.rs 154-176)
SkipWhitespaceIteration(l) ==
    LET c == Peek(l)
    IN  CASE c \in {"\t", " ", "\r"} -> Advance(l)
          [] c = "/" ->
                IF PeekNext(l) = "panic" THEN [l EXCEPT !.at = "panic"]
                ELSE IF PeekNext(l) = "/" THEN [l EXCEPT !.at = "comment"]
                ELSE [l EXCEPT !.at = "next_token"]
          [] c = "\n" -> Advance([l EXCEPT !.column = 0, !.row = @ + 1])
          [] OTHER -> [l EXCEPT !.at = "next_token"]

\* One test of `while self.peek() != '\n'` and its body (lexer.rs 162-164)
CommentIteration(l) ==
    IF Peek(l) # "\n" THEN Advance(l) ELSE [l EXCEPT !.at = "skip_whitespace"]

\* A token of one character, or of two when `=` follows (lexer.rs 218-225,
\* 233-240, 243-250)
OneOrTwo(l, followed, alone) ==
    IF Peek(l) = "="
    THEN LET l1 == Advance(l) IN Return(l1, MakeToken(Tok(followed), l1.row, l1.column))
    ELSE Return(l, MakeToken(Tok(alone), l.row, l.column))

\* next_token after skip_whitespace, up to the first loop (lexer.rs 216-283)
NextTokenMatch(l0) ==
    LET c == Peek(l0)
        l == Advance(l0)
        single(kind) == Return(l, MakeToken(Tok(kind), l.row, l.column))
    IN  CASE c = ":" -> OneOrTwo(l, "Walrus", "Colon")
          [] c = ";" -> single("Semicolon")
          [] c = "/" -> single("Slash")
          [] c = "*" -> single("Star")
          [] c = "%" -> single("Percent")
          [] c = "," -> single("Comma")
          [] c = "(" -> single("LParen")
          [] c = ")" -> single("RParen")
          [] c = "!" -> OneOrTwo(l, "NotEqual", "Not")
          [] c = "-" -> single("Minus")
          [] c = "+" -> single("Plus")
          [] c = "=" -> OneOrTwo(l, "EqualEqual", "Equal")
          [] c \in Digits ->
                [l EXCEPT !.at = "number", !.text = <<c>>,
                          !.start_row = l.row, !.start_col = l.column - 1]
          [] c \in Letters \cup {"_"} ->
                [l EXCEPT !.at = "ident", !.text = <<c>>,
                          !.start_row = l.row, !.start_col = l.column]
          [] c = NUL -> [l EXCEPT !.at = "ended"]
          [] c = "\"" ->
                [l EXCEPT !.at = "string", !.text = <<>>, !.nuls = 0,
                          !.start_row = l.row, !.start_col = l.column - 1]
          [] OTHER -> Return(l, MakeToken([kind |-> "Illegal", char |-> c], l.row, l.column))

\* One test of `while self.peek().is_ascii_digit()` and what follows (lexer.rs 256-259)
NumberIteration(l) ==
    IF Peek(l) \in Digits
    THEN [Advance(l) EXCEPT !.text = Append(@, Peek(l))]
    ELSE Return(l, MakeToken(TNumber(l.text), l.start_row, l.start_col))

\* One test of `while self.peek().is_alphanumeric() || self.peek() == '_'`
\* and what follows (lexer.rs 266-269)
IdentIteration(l) ==
    IF IsAlphanumeric(Peek(l)) \/ Peek(l) = "_"
    THEN [Advance(l) EXCEPT !.text = Append(@, Peek(l))]
    ELSE Return(l, MakeToken(ClassifyIdent(TextOf(l.text)), l.start_row, l.start_col))

\* One test of `while self.peek() != '"'` and what follows (lexer.rs 276-280).
\* At the end of the source advance returns '\0' and moves nothing; a '\0'
\* that is a character of the source is pushed like any other.
StringIteration(l) ==
    IF Peek(l) # "\""
    THEN IF l.read_pos >= Len(l.source)
         THEN [l EXCEPT !.nuls = IF @ < MaxNuls THEN @ + 1 ELSE @]
         ELSE [Advance(l) EXCEPT !.text = Append(@, Peek(l))]
    ELSE Return(Advance(l), MakeToken(TString(TextOf(l.text)), l.start_row, l.start_col))

(***************************************************************************)
(* SpecLex: the consumer calls next() until it returns None.  One step per *)
(* call and per loop iteration inside it.  A step of the running call is   *)
(* always taken when it changes the state (weak fairness): the process     *)
(* does not stop by itself in the middle of a call.                        *)
(***************************************************************************)
MaxSrc == 4

SourceChars == {"a", "1", " ", "\n", "/", "\"", "=", ":", "#"}

\* Sources with a character outside ASCII or a '\0' in them: a letter, a
\* digit, a letter number and an ideograph inside an identifier, a letter and
\* a digit at the start of a token, a letter after a number, a currency sign, a
\* '\0' inside a string literal, inside a comment and between tokens.
OtherSources ==
    {<<"a", "<U+00E9>">>, <<"a", "<U+0663>">>, <<"a", "<U+03B2>", "1">>,
     <<"<U+00E9>", "a">>, <<"<U+0663>", "1">>, <<"1", "<U+00E9>">>, <<"a", "<U+20AC>">>,
     <<"a", "<U+FF11>">>, <<"a", "<U+2167>", "<U+4E00>">>, <<"a", "<U+1C89>">>,
     <<"\"", "a", NUL, "b", "\"">>, <<"/", "/", NUL, "\n", "a">>, <<"a", " ", NUL, "b">>}

\* set x := 12 // c      "a b" != if_1
SampleSources ==
    {<<"s", "e", "t", " ", "x", " ", ":", "=", " ", "1", "2", " ", "/", "/", " ", "c", "\n">>,
     <<"\"", "a", " ", "b", "\"", " ", "!", "=", " ", "i", "f", "_", "1">>,
     <<"i", "f", " ", "(", "x", ")", "\t", ";">>}
    \cup OtherSources

Sources == SeqsUpTo(SourceChars, MaxSrc) \cup SampleSources

InitLex ==
    /\ pc = "lex"
    /\ \E source \in Sources : lex = NewLexer(source)
    /\ ast = <<>>
    /\ sem = NewAnalyzer
    /\ cc = NotRun
    /\ compiler_ctx = CompilerCtx(FALSE)
    /\ c_file = Absent
    /\ idx = 1
    /\ bidx = 0
    /\ reported = <<>>
    /\ ir = <<>>
    /\ code = <<>>
    /\ tokens = <<>>
    /\ parsed = <<>>
    /\ probe = <<>>

LexStep(at, l) ==
    /\ pc = "lex"
    /\ lex.at = at
    /\ lex' = l
    /\ pc' = CASE l.at = "ended" -> "lexed"
               [] l.at = "panic" -> "panic_lex"
               [] OTHER -> "lex"
    /\ UNCHANGED <<ast, sem, idx, bidx, reported, ir, code, tokens, parsed, probe, cc,
                   compiler_ctx, c_file>>

\* next() is called (lexer.rs 289-290)
CallNext == LexStep("idle", [lex EXCEPT !.at = "skip_whitespace"])

SkipWhitespaceStep == LexStep("skip_whitespace", SkipWhitespaceIteration(lex))

CommentStep == LexStep("comment", CommentIteration(lex))

NextTokenStep == LexStep("next_token", NextTokenMatch(lex))

NumberStep == LexStep("number", NumberIteration(lex))

IdentStep == LexStep("ident", IdentIteration(lex))

StringStep == LexStep("string", StringIteration(lex))

NextLex ==
    \/ CallNext
    \/ SkipWhitespaceStep
    \/ CommentStep
    \/ NextTokenStep
    \/ NumberStep
    \/ IdentStep
    \/ StringStep

SpecLex == InitLex /\ [][NextLex]_vars /\ WF_vars(NextLex)

\* C3: for every finite source text, a source that ends inside a `//` comment
\* or inside a string literal included, the calls of next() return finitely
\* many tokens and then None: the sequence ends.
C3_NextEndsWithNone == <>(pc = "lexed")

\* C26: whatever the source and the position in it, peek and peek_next read no
\* index outside the character vector: the lexer never stops on an
\* out-of-bounds access, and a source whose last character is `/` gets its
\* Slash token.
C26_LookaheadStaysInBounds ==
    /\ pc # "panic_lex"
    /\ pc = "lex" => lex.at # "panic"

====
